---------------------------- MODULE Spec2Model ----------------------------
(***************************************************************************)
(* headroom: lossless MP3 gain adjustment (src/src/mp3.rs).                *)
(*                                                                         *)
(* The module models the frame header parser, the gain field locator, the  *)
(* bit-level accessor, the ID3v2 tag skipper and apply_gain, the frame     *)
(* walker that rewrites every global_gain field of a file in place.  It    *)
(* also models the callers of the walker: the method decision of           *)
(* analyze_file (src/src/analyzer.rs), process_file with its backup and    *)
(* its encoder runs (src/src/processor.rs) and the parallel analysis and   *)
(* the prompts of run (src/src/cli.rs).                                    *)
(*                                                                         *)
(* Bytes are integers 0..255, buffers are sequences of bytes; the code's   *)
(* 0-based index i is element i + 1 of the sequence.  u8 arithmetic is     *)
(* taken modulo 256, gain_steps is an i32.                                 *)
(***************************************************************************)
EXTENDS Integers, Sequences, FiniteSets, TLC

VARIABLES
    disk,             \* content of the file at file_path
    readable,         \* whether fs::read of file_path succeeds
    overflow_checks,  \* build profile: integer overflow panics (debug) or wraps (release)
    pc,               \* position of the caller / of apply_gain
    gain_steps,       \* apply_gain's argument
    data,             \* apply_gain's buffer
    file_size,        \* apply_gain's file_size
    pos,              \* apply_gain's scan position
    modified_frames,  \* apply_gain's counter
    result,           \* what the last call returned
    calls,            \* number of apply_gain calls started
    reads,            \* fs::read calls of the current apply_gain call
    writes,           \* fs::write calls of the current apply_gain call
    mutated,          \* buffer mutations of the current call, with the reads/writes seen then
    before,           \* content of the file when the current call started
    frames,           \* frames the current call validated, in order
    sat,              \* some gain field of the current call reached 0 or 255
    prev,             \* summary of the previous call
    handed,           \* the buffer the current call handed to fs::write
    hdr_in,           \* parse_header's argument (header specification)
    hdr_out,          \* parse_header's result (header specification)
    acc_loc,          \* the GainLocation argument of the accessor
    acc_value,        \* the u8 argument of write_gain_at
    stderr,           \* extract_loudnorm_json's argument
    out,              \* the result of the function applied (function specifications)
    disks,            \* the files of the concurrent calls, by path
    tasks,            \* the concurrent apply_gain calls, by path
    proc,             \* process_file: its arguments, its position, the files, its result
    cli,              \* cli::run: the analyses, the answers, its position, the files processed
    par,              \* analyze_files: the workers, the shared lists, its result
    probe             \* analyze_file: what was measured of the file

fsVars == <<disk, readable, overflow_checks>>
callVars == <<pc, gain_steps, data, file_size, pos, modified_frames, result>>
ghostVars == <<calls, reads, writes, mutated, before, frames, sat, prev, handed>>
hdrVars == <<hdr_in, hdr_out>>
fnVars == <<acc_loc, acc_value, stderr, out>>
concVars == <<disks, tasks>>
appVars == <<proc, cli, par, probe>>
vars == <<fsVars, callVars, ghostVars, hdrVars, fnVars, concVars, appVars>>

---------------------------------------------------------------------------
(* u8 and i32 arithmetic *)

Byte == 0..255

\* (x << s) as u8
Shl8(x, s) == (x * (2 ^ s)) % 256

\* x >> s on u8
Shr8(x, s) == x \div (2 ^ s)

RECURSIVE BitAnd(_, _)
\* a & b
BitAnd(a, b) ==
    IF a = 0 \/ b = 0 THEN 0
    ELSE (a % 2) * (b % 2) + 2 * BitAnd(a \div 2, b \div 2)

RECURSIVE BitOr(_, _)
\* a | b
BitOr(a, b) ==
    IF a = 0 THEN b
    ELSE IF b = 0 THEN a
    ELSE (IF (a % 2) + (b % 2) > 0 THEN 1 ELSE 0) + 2 * BitOr(a \div 2, b \div 2)

\* i32::MIN
I32Min == -2147483647 - 1

\* x as u8, for an i32 x
AsU8(x) == ((x % 256) + 256) % 256

\* -x on i32 in a build without overflow checks
WrappingNeg(x) == IF x = I32Min THEN I32Min ELSE -x

Min(a, b) == IF a <= b THEN a ELSE b

\* u8::saturating_add
saturating_add(a, b) == IF a + b > 255 THEN 255 ELSE a + b

\* u8::saturating_sub
saturating_sub(a, b) == IF a - b < 0 THEN 0 ELSE a - b

\* data[i] for the code's 0-based index i
At(d, i) == d[i + 1]

---------------------------------------------------------------------------
(* Frame header parser *)

BITRATE_TABLE_MPEG1_L3 ==
    <<0, 32, 40, 48, 56, 64, 80, 96, 112, 128, 160, 192, 224, 256, 320>>

BITRATE_TABLE_MPEG2_L3 ==
    <<0, 8, 16, 24, 32, 40, 48, 56, 64, 80, 96, 112, 128, 144, 160>>

SAMPLE_RATE_TABLE ==
    << <<44100, 48000, 32000>>,
       <<22050, 24000, 16000>>,
       <<11025, 12000, 8000>> >>

None == [tag |-> "None"]

\* ChannelMode::channel_count
channel_count(channel_mode) == IF channel_mode = "Mono" THEN 1 ELSE 2

\* FrameHeader::granule_count
granule_count(header) == IF header.version = "Mpeg1" THEN 2 ELSE 1

\* FrameHeader::side_info_offset
side_info_offset(header) == IF header.has_crc THEN 6 ELSE 4

\* frame_size_of with 1152 samples per frame for every version
frame_size_of_1152(version, bitrate_kbps, sample_rate, padding) ==
    LET padding_size == IF padding THEN 1 ELSE 0
    IN  (1152 * bitrate_kbps * 125) \div sample_rate + padding_size

\* samples_per_frame * bitrate_kbps * 125 / sample_rate + padding_size
frame_size_of(version, bitrate_kbps, sample_rate, padding) ==
    LET samples_per_frame == IF version = "Mpeg1" THEN 1152 ELSE 576
        padding_size == IF padding THEN 1 ELSE 0
    IN  (samples_per_frame * bitrate_kbps * 125) \div sample_rate + padding_size

\* layer_of with the rows of Layer III and Layer II exchanged
layer_of_rows_exchanged(layer_bits) ==
    CASE layer_bits = 1 -> 2
      [] layer_bits = 2 -> 3
      [] layer_bits = 3 -> 1
      [] OTHER -> 0

\* the layer number of the layer bits, 0 for the reserved value
layer_of(layer_bits) ==
    CASE layer_bits = 1 -> 3
      [] layer_bits = 2 -> 2
      [] layer_bits = 3 -> 1
      [] OTHER -> 0

\* the version of the version bits, "Reserved" for 01
version_of(version_bits) ==
    CASE version_bits = 0 -> "Mpeg25"
      [] version_bits = 2 -> "Mpeg2"
      [] version_bits = 3 -> "Mpeg1"
      [] OTHER -> "Reserved"

\* the channel mode of the channel bits
channel_mode_of(channel_bits) ==
    CASE channel_bits = 0 -> "Stereo"
      [] channel_bits = 1 -> "JointStereo"
      [] channel_bits = 2 -> "DualChannel"
      [] OTHER -> "Mono"

\* the bitrate index accepted by parse_header
bitrate_index_ok(bitrate_index) == ~(bitrate_index = 0 \/ bitrate_index = 15)

\* has_crc: the protection bit is 0
has_crc_of(b1) == BitAnd(b1, 1) = 0

\* parse_header(header: &[u8]) -> Option<FrameHeader>
parse_header(header) ==
    IF Len(header) < 4 THEN None
    ELSE IF At(header, 0) # 255 \/ BitAnd(At(header, 1), 224) # 224 THEN None
    ELSE
    LET version_bits == BitAnd(Shr8(At(header, 1), 3), 3)
        version == version_of(version_bits)
        layer_bits == BitAnd(Shr8(At(header, 1), 1), 3)
        layer == layer_of(layer_bits)
        has_crc == has_crc_of(At(header, 1))
        bitrate_index == BitAnd(Shr8(At(header, 2), 4), 15)
        sr_index == BitAnd(Shr8(At(header, 2), 2), 3)
    IN  IF version = "Reserved" THEN None
        ELSE IF layer = 0 THEN None
        ELSE IF layer # 3 THEN None
        ELSE IF ~bitrate_index_ok(bitrate_index) THEN None
        ELSE IF sr_index = 3 THEN None
        ELSE
        LET bitrate_kbps ==
                IF version = "Mpeg1" THEN BITRATE_TABLE_MPEG1_L3[bitrate_index + 1]
                ELSE BITRATE_TABLE_MPEG2_L3[bitrate_index + 1]
            version_index ==
                CASE version = "Mpeg1" -> 0
                  [] version = "Mpeg2" -> 1
                  [] OTHER -> 2
            sample_rate == SAMPLE_RATE_TABLE[version_index + 1][sr_index + 1]
            padding == BitAnd(At(header, 2), 2) # 0
            channel_bits == BitAnd(Shr8(At(header, 3), 6), 3)
            channel_mode == channel_mode_of(channel_bits)
        IN  [tag |-> "Some",
             version |-> version,
             layer |-> layer,
             has_crc |-> has_crc,
             bitrate_kbps |-> bitrate_kbps,
             sample_rate |-> sample_rate,
             padding |-> padding,
             channel_mode |-> channel_mode,
             frame_size |-> frame_size_of(version, bitrate_kbps, sample_rate, padding)]

---------------------------------------------------------------------------
(* Gain field locator *)

\* bits_before_granules by (version, num_channels)
bits_before_granules(version, num_channels) ==
    CASE version = "Mpeg1" /\ num_channels = 1 -> 18
      [] version = "Mpeg1" -> 20
      [] num_channels = 1 -> 9
      [] OTHER -> 10

\* bits_per_granule_channel by version
bits_per_granule_channel(version) == IF version = "Mpeg1" THEN 59 ELSE 63

\* gain_location for a loop that runs over the channels first, then the granules
gain_location_channel_major(frame_offset, header, gr, ch) ==
    LET side_info_start == frame_offset + side_info_offset(header)
        num_channels == channel_count(header.channel_mode)
        granule_start_bit ==
            bits_before_granules(header.version, num_channels)
            + (ch * granule_count(header) + gr) * bits_per_granule_channel(header.version)
        global_gain_bit == granule_start_bit + 21
    IN  [byte_offset |-> side_info_start + global_gain_bit \div 8,
         bit_offset |-> global_gain_bit % 8]

\* the GainLocation of granule gr, channel ch
gain_location(frame_offset, header, gr, ch) ==
    LET side_info_start == frame_offset + side_info_offset(header)
        num_channels == channel_count(header.channel_mode)
        granule_start_bit ==
            bits_before_granules(header.version, num_channels)
            + (gr * num_channels + ch) * bits_per_granule_channel(header.version)
        global_gain_bit == granule_start_bit + 21
    IN  [byte_offset |-> side_info_start + global_gain_bit \div 8,
         bit_offset |-> global_gain_bit % 8]

\* calculate_gain_locations(frame_offset, header) -> Vec<GainLocation>:
\* for gr in 0..num_granules { for ch in 0..num_channels { push } }
calculate_gain_locations(frame_offset, header) ==
    LET num_channels == channel_count(header.channel_mode)
        num_granules == granule_count(header)
    IN  [k \in 1..(num_granules * num_channels) |->
            gain_location(frame_offset, header,
                          (k - 1) \div num_channels, (k - 1) % num_channels)]

---------------------------------------------------------------------------
(* Bit-level accessor *)

\* read_gain_at that shifts the second byte by the bit offset
read_gain_at_low_misplaced(d, loc) ==
    LET idx == loc.byte_offset
    IN  IF idx >= Len(d) THEN 0
        ELSE IF loc.bit_offset = 0 THEN At(d, idx)
        ELSE IF idx + 1 < Len(d) THEN
            LET shift == loc.bit_offset
                high == Shl8(At(d, idx), shift)
                low == Shr8(At(d, idx + 1), shift)
            IN  BitOr(high, low)
        ELSE Shl8(At(d, idx), loc.bit_offset)

\* read_gain_at(data: &[u8], loc: &GainLocation) -> u8
read_gain_at(d, loc) ==
    LET idx == loc.byte_offset
    IN  IF idx >= Len(d) THEN 0
        ELSE IF loc.bit_offset = 0 THEN At(d, idx)
        ELSE IF idx + 1 < Len(d) THEN
            LET shift == loc.bit_offset
                high == Shl8(At(d, idx), shift)
                low == Shr8(At(d, idx + 1), 8 - shift)
            IN  BitOr(high, low)
        ELSE Shl8(At(d, idx), loc.bit_offset)

\* write_gain_at that inserts the second byte of a straddling field instead of
\* overwriting it
write_gain_at_inserting(d, loc, value) ==
    LET idx == loc.byte_offset
        shift == loc.bit_offset
        mask_high == Shl8(255, 8 - shift)
        mask_low == Shr8(255, shift)
    IN  IF idx >= Len(d) THEN d
        ELSE IF shift = 0 THEN [d EXCEPT ![idx + 1] = value]
        ELSE IF idx + 1 < Len(d) THEN
            SubSeq(d, 1, idx)
            \o <<BitOr(BitAnd(At(d, idx), mask_high), Shr8(value, shift)),
                 BitOr(BitAnd(At(d, idx + 1), mask_low), Shl8(value, 8 - shift))>>
            \o SubSeq(d, idx + 2, Len(d))
        ELSE [d EXCEPT
                 ![idx + 1] = BitOr(BitAnd(At(d, idx), mask_high), Shr8(value, shift))]

\* write_gain_at that does not keep the low bits of the second byte
write_gain_at_unmasked(d, loc, value) ==
    LET idx == loc.byte_offset
        shift == loc.bit_offset
        mask_high == Shl8(255, 8 - shift)
    IN  IF idx >= Len(d) THEN d
        ELSE IF shift = 0 THEN [d EXCEPT ![idx + 1] = value]
        ELSE IF idx + 1 < Len(d) THEN
            [d EXCEPT
                ![idx + 1] = BitOr(BitAnd(At(d, idx), mask_high), Shr8(value, shift)),
                ![idx + 2] = Shl8(value, 8 - shift)]
        ELSE [d EXCEPT
                 ![idx + 1] = BitOr(BitAnd(At(d, idx), mask_high), Shr8(value, shift))]

\* write_gain_at(data: &mut [u8], loc: &GainLocation, value: u8): the buffer after it
write_gain_at(d, loc, value) ==
    LET idx == loc.byte_offset
    IN  IF idx >= Len(d) THEN d
        ELSE IF loc.bit_offset = 0 THEN [d EXCEPT ![idx + 1] = value]
        ELSE IF idx + 1 < Len(d) THEN
            LET shift == loc.bit_offset
                mask_high == Shl8(255, 8 - shift)
                mask_low == Shr8(255, shift)
            IN  [d EXCEPT
                    ![idx + 1] = BitOr(BitAnd(At(d, idx), mask_high), Shr8(value, shift)),
                    ![idx + 2] = BitOr(BitAnd(At(d, idx + 1), mask_low),
                                       Shl8(value, 8 - shift))]
        ELSE
            LET shift == loc.bit_offset
                mask_high == Shl8(255, 8 - shift)
            IN  [d EXCEPT
                    ![idx + 1] = BitOr(BitAnd(At(d, idx), mask_high), Shr8(value, shift))]

---------------------------------------------------------------------------
(* ID3 tag skipper *)

\* b"ID3"
ID3 == <<73, 68, 51>>

\* skip_id3v2 that takes all 8 bits of each size byte
skip_id3v2_unmasked(d) ==
    IF Len(d) < 10 THEN 0
    ELSE IF SubSeq(d, 1, 3) # ID3 THEN 0
    ELSE
    LET size == At(d, 6) * (2 ^ 21) + At(d, 7) * (2 ^ 14) + At(d, 8) * (2 ^ 7)
              + At(d, 9)
    IN  10 + size

\* skip_id3v2 that skips the 10 bytes of the tag header only
skip_id3v2_header_only(d) ==
    IF Len(d) < 10 THEN 0
    ELSE IF SubSeq(d, 1, 3) # ID3 THEN 0
    ELSE 10

\* skip_id3v2(data: &[u8]) -> usize
skip_id3v2(d) ==
    IF Len(d) < 10 THEN 0
    ELSE IF SubSeq(d, 1, 3) # ID3 THEN 0
    ELSE
    LET size == BitAnd(At(d, 6), 127) * (2 ^ 21)
              + BitAnd(At(d, 7), 127) * (2 ^ 14)
              + BitAnd(At(d, 8), 127) * (2 ^ 7)
              + BitAnd(At(d, 9), 127)
    IN  10 + size

---------------------------------------------------------------------------
(* Inputs: the files and the step counts the calls are made with *)

\* number of units a file is made of, at most
MaxUnits == 3

\* number of apply_gain calls made on the file, at most
MaxCalls == 2

Zeros(n) == [i \in 1..n |-> 0]

\* FF F3 14 C0: MPEG2, Layer III, no CRC, 8 kbps, 24000 Hz, Mono: 24 bytes
HeaderMono == <<255, 243, 20, 192>>

\* FF F3 24 C0, the header of a 48-byte frame (MPEG2, 16 kbps, 24000 Hz, Mono),
\* followed by 12 bytes that are no frame body (a global_gain of 20 where the
\* header's frame would hold it)
JunkHeader == <<255, 243, 36, 192>> \o <<0, 0, 0, 0, 80>> \o Zeros(7)

\* a 24-byte mono frame, global_gain 53 (D7: 110101 and two more bits), then E0
FrameMono == HeaderMono \o <<0, 0, 0, 0, 215, 224>> \o Zeros(14)

\* FF F2 14 00: MPEG2, Layer III, CRC, 8 kbps, 24000 Hz, Stereo: 24 bytes,
\* global_gain 250 and 3
FrameStereoCrc ==
    <<255, 242, 20, 0, 171, 205>> \o <<0, 0, 0, 1, 244>> \o Zeros(6)
    \o <<0, 12>> \o Zeros(5)

\* FF FB 16 40: MPEG1, Layer III, no CRC, 32 kbps, 48000 Hz, padded, JointStereo:
\* 97 bytes, two granules
FrameMpeg1 == <<255, 251, 22, 64>> \o [i \in 1..93 |-> 90]

\* one byte of padding
ZeroByte == <<0>>

\* an ID3v2 tag of size 4 whose payload looks like a frame header
Tag == ID3 \o <<4, 0, 0, 0, 0, 0, 4>> \o HeaderMono

Units == {JunkHeader, FrameMono, FrameStereoCrc, FrameMpeg1, ZeroByte, Tag}

RECURSIVE FilesOf(_)
\* the files made of at most n units
FilesOf(n) ==
    IF n = 0 THEN {<<>>}
    ELSE LET shorter == FilesOf(n - 1)
         IN  shorter \cup {u \o f : u \in Units, f \in shorter}

Files == FilesOf(MaxUnits)

\* the step counts of a first call: i32 values around the clamps, and the most
\* negative one
Steps == {I32Min, -300, -10, 0, 10, 300}

\* the step counts of the call that follows a call with step count s: the caller
\* undoes it (-s, where the i32 has one)
UndoSteps(s) == IF s = I32Min THEN {} ELSE {-s}

\* the lengths at which a failing write_all may stop
PartialLengths(d) == {0, Len(d) \div 2} \ {Len(d)}

---------------------------------------------------------------------------
(* apply_gain *)

Ok(n) == [tag |-> "Ok", n |-> n]
Err(what) == [tag |-> "Err", what |-> what]
Panic == [tag |-> "Panic"]
Running == [tag |-> "Running"]
NoCall == [tag |-> "NoCall"]

\* a function that was not applied yet, and a GainLocation that is not in use
NotRun == [tag |-> "NotRun"]
NoLocation == [byte_offset |-> 0, bit_offset |-> 0]

\* valid_frame that takes a frame running past the end of the file for the last one
valid_frame_truncated(d, size, next_pos) ==
    IF next_pos + 2 <= size
    THEN At(d, next_pos) = 255 /\ BitAnd(At(d, next_pos + 1), 224) = 224
    ELSE TRUE

\* valid_frame: the next frame's sync, or the end of the file
valid_frame(d, size, next_pos) ==
    IF next_pos + 2 <= size
    THEN At(d, next_pos) = 255 /\ BitAnd(At(d, next_pos + 1), 224) = 224
    ELSE next_pos <= size

\* -gain_steps overflows i32
negate_overflows(steps) == steps < 0 /\ steps = I32Min

\* new_gain: the clamped gain
new_gain(current_gain, steps) ==
    IF steps > 0
    THEN saturating_add(current_gain, AsU8(Min(steps, 255)))
    ELSE LET decrease == AsU8(Min(WrappingNeg(steps), 255))
         IN  saturating_sub(current_gain, decrease)

RECURSIVE modify_gains_twice(_, _, _, _)
\* modify_gains that adjusts every field a second time
modify_gains_twice(d, locations, k, steps) ==
    IF k > Len(locations) THEN d
    ELSE LET loc == locations[k]
             current_gain == read_gain_at(d, loc)
         IN  modify_gains_twice(
                 write_gain_at(d, loc, new_gain(new_gain(current_gain, steps), steps)),
                 locations, k + 1, steps)

RECURSIVE modify_gains(_, _, _, _)
\* for loc in &locations { read_gain_at; new_gain; write_gain_at }, from the k-th on
modify_gains(d, locations, k, steps) ==
    IF k > Len(locations) THEN d
    ELSE LET loc == locations[k]
             current_gain == read_gain_at(d, loc)
         IN  modify_gains(write_gain_at(d, loc, new_gain(current_gain, steps)),
                          locations, k + 1, steps)

\* whether the adjustment of one of the fields reaches 0 or 255
reaches_bound(d, locations, steps) ==
    \E k \in 1..Len(locations) :
        LET v == read_gain_at(d, locations[k])
        IN  IF steps > 0 THEN v + Min(steps, 255) >= 255
            ELSE steps <= -255 \/ v + steps <= 0

\* the header at the scan position: parse_header(&data[pos..])
header_at(d, p) == parse_header(SubSeq(d, p + 1, Len(d)))

\* while pos + 4 <= file_size
in_loop == pc = "walk" /\ pos + 4 <= file_size

locals_dropped ==
    /\ data' = <<>>
    /\ file_size' = 0
    /\ pos' = 0
    /\ modified_frames' = 0

\* apply_gain without the early return
returns_at_once_never(steps) == FALSE

\* if gain_steps == 0 { return Ok(0) }
returns_at_once(steps) == steps = 0

\* apply_gain(file_path, steps) is called
Call(steps) ==
    /\ pc \in {"idle", "done"}
    /\ calls < MaxCalls
    /\ result.tag \in {"NoCall", "Ok"}
    /\ calls' = calls + 1
    /\ gain_steps' = steps
    /\ prev' = IF pc = "idle" THEN NoCall
               ELSE [tag |-> "Call", steps |-> gain_steps, before |-> before,
                     result |-> result, sat |-> sat, frames |-> frames]
    /\ before' = disk
    /\ reads' = 0
    /\ writes' = 0
    /\ mutated' = {}
    /\ frames' = <<>>
    /\ sat' = FALSE
    /\ handed' = <<>>
    /\ IF returns_at_once(steps)
       THEN pc' = "done" /\ result' = Ok(0)
       ELSE pc' = "read" /\ result' = Running
    /\ locals_dropped
    /\ UNCHANGED <<fsVars, hdrVars, fnVars, concVars, appVars>>

\* fs::read(file_path) succeeds; file_size, modified_frames, pos = skip_id3v2(&data)
ReadOk ==
    /\ pc = "read"
    /\ readable
    /\ reads' = reads + 1
    /\ data' = disk
    /\ file_size' = Len(disk)
    /\ modified_frames' = 0
    /\ pos' = skip_id3v2(disk)
    /\ pc' = "walk"
    /\ UNCHANGED <<fsVars, gain_steps, result, calls, writes, mutated, before,
                   frames, sat, prev, handed, hdrVars, fnVars, concVars, appVars>>

\* fs::read(file_path) fails: the error is returned
ReadFail ==
    /\ pc = "read"
    /\ ~readable
    /\ reads' = reads + 1
    /\ pc' = "done"
    /\ result' = Err("read")
    /\ locals_dropped
    /\ UNCHANGED <<fsVars, gain_steps, calls, writes, mutated, before,
                   frames, sat, prev, handed, hdrVars, fnVars, concVars, appVars>>

\* parse_header gives None: pos += 1
HeaderMiss ==
    /\ in_loop
    /\ header_at(data, pos) = None
    /\ pos' = pos + 1
    /\ UNCHANGED <<fsVars, pc, gain_steps, data, file_size, modified_frames, result,
                   ghostVars, hdrVars, fnVars, concVars, appVars>>

\* FrameInvalid that jumps by the frame size of the rejected header
FrameInvalid_jumping ==
    /\ in_loop
    /\ LET header == header_at(data, pos)
       IN  /\ header # None
           /\ ~valid_frame(data, file_size, pos + header.frame_size)
           /\ pos' = pos + header.frame_size
    /\ UNCHANGED <<fsVars, pc, gain_steps, data, file_size, modified_frames, result,
                   ghostVars, hdrVars, fnVars, concVars, appVars>>

\* FrameInvalid that counts the rejected candidate
FrameInvalid_counted ==
    /\ in_loop
    /\ LET header == header_at(data, pos)
       IN  /\ header # None
           /\ ~valid_frame(data, file_size, pos + header.frame_size)
    /\ pos' = pos + 1
    /\ modified_frames' = modified_frames + 1
    /\ UNCHANGED <<fsVars, pc, gain_steps, data, file_size, result,
                   ghostVars, hdrVars, fnVars, concVars, appVars>>

\* the header parses and the frame is not valid: pos += 1
FrameInvalid ==
    /\ in_loop
    /\ LET header == header_at(data, pos)
       IN  /\ header # None
           /\ ~valid_frame(data, file_size, pos + header.frame_size)
    /\ pos' = pos + 1
    /\ UNCHANGED <<fsVars, pc, gain_steps, data, file_size, modified_frames, result,
                   ghostVars, hdrVars, fnVars, concVars, appVars>>

\* the frame is valid: its gains are rewritten, modified_frames += 1, pos = next_pos
FrameModify ==
    /\ in_loop
    /\ LET header == header_at(data, pos)
       IN  /\ header # None
           /\ LET next_pos == pos + header.frame_size
                  locations == calculate_gain_locations(pos, header)
              IN  /\ valid_frame(data, file_size, next_pos)
                  /\ ~(negate_overflows(gain_steps) /\ overflow_checks)
                  /\ data' = modify_gains(data, locations, 1, gain_steps)
                  /\ modified_frames' = modified_frames + 1
                  /\ pos' = next_pos
                  /\ frames' = Append(frames, [pos |-> pos, header |-> header])
                  /\ sat' = (sat \/ reaches_bound(data, locations, gain_steps))
                  /\ mutated' = mutated \cup {<<reads, writes>>}
    /\ UNCHANGED <<fsVars, pc, gain_steps, file_size, result, calls, reads, writes,
                   before, prev, handed, hdrVars, fnVars, concVars, appVars>>

\* the frame is valid and -gain_steps overflows in a build with overflow checks:
\* the thread panics at the first location
NegatePanic ==
    /\ in_loop
    /\ LET header == header_at(data, pos)
       IN  /\ header # None
           /\ valid_frame(data, file_size, pos + header.frame_size)
           /\ Len(calculate_gain_locations(pos, header)) > 0
    /\ negate_overflows(gain_steps) /\ overflow_checks
    /\ pc' = "done"
    /\ result' = Panic
    /\ locals_dropped
    /\ UNCHANGED <<fsVars, gain_steps, ghostVars, hdrVars, fnVars, concVars, appVars>>

\* the loop is left and fs::write creates (truncates) the file
WriteCreate ==
    /\ pc = "walk" /\ ~(pos + 4 <= file_size)
    /\ writes' = writes + 1
    /\ handed' = data
    /\ disk' = <<>>
    /\ pc' = "writing"
    /\ UNCHANGED <<readable, overflow_checks, gain_steps, data, file_size, pos,
                   modified_frames, result, calls, reads, mutated, before, frames,
                   sat, prev, hdrVars, fnVars, concVars, appVars>>

\* the loop is left and fs::write cannot open the file: the error is returned
WriteCreateFail ==
    /\ pc = "walk" /\ ~(pos + 4 <= file_size)
    /\ writes' = writes + 1
    /\ handed' = data
    /\ pc' = "done"
    /\ result' = Err("write")
    /\ locals_dropped
    /\ UNCHANGED <<fsVars, gain_steps, calls, reads, mutated, before, frames,
                   sat, prev, hdrVars, fnVars, concVars, appVars>>

\* fs::write writes the whole buffer: Ok(modified_frames)
WriteAll ==
    /\ pc = "writing"
    /\ disk' = data
    /\ pc' = "done"
    /\ result' = Ok(modified_frames)
    /\ locals_dropped
    /\ UNCHANGED <<readable, overflow_checks, gain_steps, ghostVars, hdrVars, fnVars, concVars, appVars>>

\* fs::write fails after it wrote the first k bytes: the error is returned
WriteAllFail ==
    /\ pc = "writing"
    /\ \E k \in PartialLengths(data) : disk' = SubSeq(data, 1, k)
    /\ pc' = "done"
    /\ result' = Err("write")
    /\ locals_dropped
    /\ UNCHANGED <<readable, overflow_checks, gain_steps, ghostVars, hdrVars, fnVars, concVars, appVars>>

Init ==
    /\ disk \in Files
    /\ readable \in BOOLEAN
    /\ overflow_checks \in BOOLEAN
    /\ pc = "idle"
    /\ gain_steps = 0
    /\ data = <<>>
    /\ file_size = 0
    /\ pos = 0
    /\ modified_frames = 0
    /\ result = NoCall
    /\ calls = 0
    /\ reads = 0
    /\ writes = 0
    /\ mutated = {}
    /\ before = <<>>
    /\ frames = <<>>
    /\ sat = FALSE
    /\ prev = NoCall
    /\ handed = <<>>
    /\ hdr_in = <<>>
    /\ hdr_out = None
    /\ acc_loc = NoLocation
    /\ acc_value = 0
    /\ stderr = <<>>
    /\ disks = <<>>
    /\ tasks = <<>>
    /\ out = NotRun
    /\ proc = NotRun
    /\ cli = NotRun
    /\ par = NotRun
    /\ probe = NotRun

Next ==
    \/ \E steps \in (IF calls = 0 THEN Steps ELSE UndoSteps(gain_steps)) : Call(steps)
    \/ ReadOk
    \/ ReadFail
    \/ HeaderMiss
    \/ FrameInvalid
    \/ FrameModify
    \/ NegatePanic
    \/ WriteCreate
    \/ WriteCreateFail
    \/ WriteAll
    \/ WriteAllFail

Spec == Init /\ [][Next]_vars

---------------------------------------------------------------------------
(* parse_header alone, on 4-byte inputs *)

\* the 4-byte inputs: every value of the bits parse_header reads, and bytes that
\* are no sync
HeaderInputs ==
    {<<b0, b1, b2, b3>> :
        b0 \in {0, 254, 255},
        b1 \in {0, 31, 223} \cup (224..255),
        b2 \in {b \in Byte : b % 2 = 0} \cup {1, 255},
        b3 \in {0, 64, 128, 192, 255}}

\* parse_header(&hdr_in)
ParseHeader ==
    /\ pc = "header"
    /\ hdr_out' = parse_header(hdr_in)
    /\ pc' = "parsed"
    /\ UNCHANGED <<fsVars, gain_steps, data, file_size, pos, modified_frames, result,
                   ghostVars, hdr_in, fnVars, concVars, appVars>>

InitHeader ==
    /\ hdr_in \in HeaderInputs
    /\ hdr_out = NotRun
    /\ pc = "header"
    /\ disk = <<>>
    /\ readable = TRUE
    /\ overflow_checks = FALSE
    /\ gain_steps = 0
    /\ data = <<>>
    /\ file_size = 0
    /\ pos = 0
    /\ modified_frames = 0
    /\ result = NoCall
    /\ calls = 0
    /\ reads = 0
    /\ writes = 0
    /\ mutated = {}
    /\ before = <<>>
    /\ frames = <<>>
    /\ sat = FALSE
    /\ prev = NoCall
    /\ handed = <<>>
    /\ acc_loc = NoLocation
    /\ acc_value = 0
    /\ stderr = <<>>
    /\ disks = <<>>
    /\ tasks = <<>>
    /\ out = NotRun
    /\ proc = NotRun
    /\ cli = NotRun
    /\ par = NotRun
    /\ probe = NotRun

NextHeader == ParseHeader

SpecHeader == InitHeader /\ [][NextHeader]_vars


---------------------------------------------------------------------------
(* skip_id3v2 alone *)

\* no apply_gain call is in progress and none was made
at_rest ==
    /\ proc = NotRun
    /\ cli = NotRun
    /\ par = NotRun
    /\ probe = NotRun
    /\ disk = <<>>
    /\ readable = TRUE
    /\ overflow_checks = FALSE
    /\ gain_steps = 0
    /\ file_size = 0
    /\ modified_frames = 0
    /\ result = NoCall
    /\ calls = 0
    /\ reads = 0
    /\ writes = 0
    /\ mutated = {}
    /\ frames = <<>>
    /\ sat = FALSE
    /\ prev = NoCall
    /\ handed = <<>>

\* the first three bytes of a buffer: "ID3", and two that differ from it in one byte
Signatures == {ID3, <<73, 68, 50>>, <<0, 68, 51>>}

\* the values of a size byte: with and without the top bit
SizeBytes == {0, 1, 127, 128, 255}

\* the lengths of the buffers: none, shorter than a signature, a signature, one
\* byte less than a tag header, a tag header, the 12 bytes of the test
SkipLengths == {0, 2, 3, 9, 10, 12}

\* signature, version 4.0, flags, four size bytes, FF FB; cut at each length
SkipInputs ==
    {SubSeq(sig \o <<4, 0, 0, s6, s7, s8, s9, 255, 251>>, 1, n) :
        sig \in Signatures, s6 \in SizeBytes, s7 \in SizeBytes,
        s8 \in SizeBytes, s9 \in SizeBytes, n \in SkipLengths}

\* pos = skip_id3v2(&data)
SkipId3v2 ==
    /\ pc = "skip"
    /\ pos' = skip_id3v2(data)
    /\ pc' = "skipped"
    /\ UNCHANGED <<fsVars, gain_steps, data, file_size, modified_frames, result,
                   ghostVars, hdrVars, fnVars, concVars, appVars>>

InitSkip ==
    /\ data \in SkipInputs
    /\ pos = 0
    /\ pc = "skip"
    /\ at_rest
    /\ before = <<>>
    /\ hdr_in = <<>>
    /\ hdr_out = NotRun
    /\ acc_loc = NoLocation
    /\ acc_value = 0
    /\ stderr = <<>>
    /\ disks = <<>>
    /\ tasks = <<>>
    /\ out = NotRun

NextSkip == SkipId3v2

SpecSkip == InitSkip /\ [][NextSkip]_vars

---------------------------------------------------------------------------
(* calculate_gain_locations alone *)

\* headers of every version, with and without CRC, with and without padding, of
\* every channel mode: E2/E3 MPEG2.5, F2/F3 MPEG2, FA/FB MPEG1
LocatorInputs ==
    {<<255, b1, b2, b3>> :
        b1 \in {226, 227, 242, 243, 250, 251},
        b2 \in {16, 20, 144, 146},
        b3 \in {0, 64, 128, 192}}

\* the headers parse_header accepts among them
LocatorHeaders == {parse_header(h) : h \in LocatorInputs} \ {None}

\* the frame offsets: the start of a file, after a tag, inside a file
FrameOffsets == {0, 1, 10, 137, 1000}

\* let locations = calculate_gain_locations(pos, &header)
Locate ==
    /\ pc = "locate"
    /\ out' = calculate_gain_locations(pos, hdr_out)
    /\ pc' = "located"
    /\ UNCHANGED <<fsVars, gain_steps, data, file_size, pos, modified_frames, result,
                   ghostVars, hdrVars, acc_loc, acc_value, stderr,
                   concVars, appVars>>

InitLocator ==
    /\ hdr_out \in LocatorHeaders
    /\ pos \in FrameOffsets
    /\ pc = "locate"
    /\ at_rest
    /\ data = <<>>
    /\ before = <<>>
    /\ hdr_in = <<>>
    /\ acc_loc = NoLocation
    /\ acc_value = 0
    /\ stderr = <<>>
    /\ disks = <<>>
    /\ tasks = <<>>
    /\ out = NotRun

NextLocator == Locate

SpecLocator == InitLocator /\ [][NextLocator]_vars

---------------------------------------------------------------------------
(* read_gain_at and write_gain_at alone *)

\* the length of the longest buffer
MaxLen == 5

\* the buffer of the test (AB CD EF 12 34, then zeros), all bits clear, all bits
\* set, and their prefixes
AccessorBuffers ==
    {SubSeq(b, 1, n) :
        b \in {<<171, 205, 239, 18, 52>> \o Zeros(MaxLen - 5), Zeros(MaxLen),
               [i \in 1..MaxLen |-> 255]},
        n \in 0..MaxLen}

\* the locations: every byte of the longest buffer and one past it, every bit
AccessorLocations ==
    [byte_offset : 0..MaxLen, bit_offset : 0..7]

\* write_gain_at(&mut data, &loc, value)
WriteGain ==
    /\ pc = "write"
    /\ data' = write_gain_at(data, acc_loc, acc_value)
    /\ pc' = "read"
    /\ UNCHANGED <<fsVars, gain_steps, file_size, pos, modified_frames, result,
                   ghostVars, hdrVars, fnVars, concVars, appVars>>

\* read_gain_at(&data, &loc)
ReadGain ==
    /\ pc = "read"
    /\ out' = read_gain_at(data, acc_loc)
    /\ pc' = "got"
    /\ UNCHANGED <<fsVars, gain_steps, data, file_size, pos, modified_frames, result,
                   ghostVars, hdrVars, acc_loc, acc_value, stderr,
                   concVars, appVars>>

InitAccessor ==
    /\ data \in AccessorBuffers
    /\ before = data
    /\ acc_loc \in AccessorLocations
    /\ acc_value \in Byte
    /\ stderr = <<>>
    /\ disks = <<>>
    /\ tasks = <<>>
    /\ out = NotRun
    /\ pc = "write"
    /\ at_rest
    /\ pos = 0
    /\ hdr_in = <<>>
    /\ hdr_out = NotRun

NextAccessor ==
    \/ WriteGain
    \/ ReadGain

SpecAccessor == InitAccessor /\ [][NextAccessor]_vars

---------------------------------------------------------------------------
(* Concurrent apply_gain calls, one per file *)

\* the paths of the files; one call is made on each
Paths == {"a.mp3", "b.mp3"}

\* the files of the concurrent calls: one frame, a header-like pattern before two
\* frames, a tag before a frame, a frame between padding bytes
ConcFiles ==
    {FrameMono,
     JunkHeader \o FrameMono \o FrameMono,
     Tag \o FrameStereoCrc,
     ZeroByte \o FrameMono \o ZeroByte}

\* the step counts of the concurrent calls
ConcSteps == {I32Min, -10, 0, 10}

\* a call of apply_gain(path, steps) that has not run yet; before is the content of
\* the file at that time
task_called(steps, content) ==
    [pc |-> "call", gain_steps |-> steps, data |-> <<>>, file_size |-> 0, pos |-> 0,
     modified_frames |-> 0, result |-> Running, before |-> content]

\* the call returns r: its locals are dropped
task_returned(task, r) ==
    [task EXCEPT !.pc = "done", !.result = r, !.data = <<>>, !.file_size = 0,
                 !.pos = 0, !.modified_frames = 0]

\* while pos + 4 <= file_size, in the call on t
task_in_loop(t) == tasks[t].pc = "walk" /\ tasks[t].pos + 4 <= tasks[t].file_size

\* what the sequential model's variables do in a step of a concurrent call
seq_unchanged == UNCHANGED <<fsVars, callVars, ghostVars, hdrVars, fnVars, appVars>>

\* apply_gain(t, steps) starts: if gain_steps == 0 { return Ok(0) }
TaskCall(t) ==
    /\ tasks[t].pc = "call"
    /\ tasks' = [tasks EXCEPT ![t] =
                    IF returns_at_once(tasks[t].gain_steps)
                    THEN task_returned(tasks[t], Ok(0))
                    ELSE [tasks[t] EXCEPT !.pc = "read"]]
    /\ UNCHANGED disks
    /\ seq_unchanged

\* fs::read(t) succeeds; file_size, modified_frames, pos = skip_id3v2(&data)
TaskReadOk(t) ==
    /\ tasks[t].pc = "read"
    /\ readable
    /\ tasks' = [tasks EXCEPT ![t] =
                    [tasks[t] EXCEPT !.pc = "walk", !.data = disks[t],
                                     !.file_size = Len(disks[t]),
                                     !.modified_frames = 0,
                                     !.pos = skip_id3v2(disks[t])]]
    /\ UNCHANGED disks
    /\ seq_unchanged

\* fs::read(t) fails
TaskReadFail(t) ==
    /\ tasks[t].pc = "read"
    /\ ~readable
    /\ tasks' = [tasks EXCEPT ![t] = task_returned(tasks[t], Err("read"))]
    /\ UNCHANGED disks
    /\ seq_unchanged

\* parse_header gives None: pos += 1
TaskHeaderMiss(t) ==
    /\ task_in_loop(t)
    /\ header_at(tasks[t].data, tasks[t].pos) = None
    /\ tasks' = [tasks EXCEPT ![t].pos = tasks[t].pos + 1]
    /\ UNCHANGED disks
    /\ seq_unchanged

\* the header parses and the frame is not valid: pos += 1
TaskFrameInvalid(t) ==
    /\ task_in_loop(t)
    /\ LET header == header_at(tasks[t].data, tasks[t].pos)
       IN  /\ header # None
           /\ ~valid_frame(tasks[t].data, tasks[t].file_size,
                           tasks[t].pos + header.frame_size)
    /\ tasks' = [tasks EXCEPT ![t].pos = tasks[t].pos + 1]
    /\ UNCHANGED disks
    /\ seq_unchanged

\* the frame is valid: its gains are rewritten, modified_frames += 1, pos = next_pos
TaskFrameModify(t) ==
    /\ task_in_loop(t)
    /\ LET task == tasks[t]
           header == header_at(task.data, task.pos)
       IN  /\ header # None
           /\ LET next_pos == task.pos + header.frame_size
                  locations == calculate_gain_locations(task.pos, header)
              IN  /\ valid_frame(task.data, task.file_size, next_pos)
                  /\ ~(negate_overflows(task.gain_steps) /\ overflow_checks)
                  /\ tasks' = [tasks EXCEPT ![t] =
                                  [task EXCEPT
                                      !.data = modify_gains(task.data, locations, 1,
                                                            task.gain_steps),
                                      !.modified_frames = task.modified_frames + 1,
                                      !.pos = next_pos]]
    /\ UNCHANGED disks
    /\ seq_unchanged

\* the frame is valid and -gain_steps overflows in a build with overflow checks
TaskNegatePanic(t) ==
    /\ task_in_loop(t)
    /\ LET header == header_at(tasks[t].data, tasks[t].pos)
       IN  /\ header # None
           /\ valid_frame(tasks[t].data, tasks[t].file_size,
                          tasks[t].pos + header.frame_size)
           /\ Len(calculate_gain_locations(tasks[t].pos, header)) > 0
    /\ negate_overflows(tasks[t].gain_steps) /\ overflow_checks
    /\ tasks' = [tasks EXCEPT ![t] = task_returned(tasks[t], Panic)]
    /\ UNCHANGED disks
    /\ seq_unchanged

\* the loop is left and fs::write(t, &data) creates (truncates) the file
TaskWriteCreate(t) ==
    /\ tasks[t].pc = "walk" /\ ~(tasks[t].pos + 4 <= tasks[t].file_size)
    /\ disks' = [disks EXCEPT ![t] = <<>>]
    /\ tasks' = [tasks EXCEPT ![t].pc = "writing"]
    /\ seq_unchanged

\* the loop is left and fs::write cannot open the file
TaskWriteCreateFail(t) ==
    /\ tasks[t].pc = "walk" /\ ~(tasks[t].pos + 4 <= tasks[t].file_size)
    /\ tasks' = [tasks EXCEPT ![t] = task_returned(tasks[t], Err("write"))]
    /\ UNCHANGED disks
    /\ seq_unchanged

\* TaskWriteAll that writes to the path of the first call
TaskWriteAll_one_path(t) ==
    /\ tasks[t].pc = "writing"
    /\ disks' = [disks EXCEPT !["a.mp3"] = tasks[t].data]
    /\ tasks' = [tasks EXCEPT ![t] =
                    task_returned(tasks[t], Ok(tasks[t].modified_frames))]
    /\ seq_unchanged

\* fs::write writes the whole buffer to t: Ok(modified_frames)
TaskWriteAll(t) ==
    /\ tasks[t].pc = "writing"
    /\ disks' = [disks EXCEPT ![t] = tasks[t].data]
    /\ tasks' = [tasks EXCEPT ![t] =
                    task_returned(tasks[t], Ok(tasks[t].modified_frames))]
    /\ seq_unchanged

\* fs::write fails after it wrote the first k bytes to t
TaskWriteAllFail(t) ==
    /\ tasks[t].pc = "writing"
    /\ \E k \in PartialLengths(tasks[t].data) :
           disks' = [disks EXCEPT ![t] = SubSeq(tasks[t].data, 1, k)]
    /\ tasks' = [tasks EXCEPT ![t] = task_returned(tasks[t], Err("write"))]
    /\ seq_unchanged

InitConc ==
    /\ disks \in [Paths -> ConcFiles]
    /\ \E steps \in [Paths -> ConcSteps] :
           tasks = [t \in Paths |-> task_called(steps[t], disks[t])]
    /\ readable \in BOOLEAN
    /\ overflow_checks \in BOOLEAN
    /\ pc = "conc"
    /\ disk = <<>>
    /\ gain_steps = 0
    /\ data = <<>>
    /\ file_size = 0
    /\ pos = 0
    /\ modified_frames = 0
    /\ result = NoCall
    /\ calls = 0
    /\ reads = 0
    /\ writes = 0
    /\ mutated = {}
    /\ before = <<>>
    /\ frames = <<>>
    /\ sat = FALSE
    /\ prev = NoCall
    /\ handed = <<>>
    /\ hdr_in = <<>>
    /\ hdr_out = NotRun
    /\ acc_loc = NoLocation
    /\ acc_value = 0
    /\ stderr = <<>>
    /\ out = NotRun
    /\ proc = NotRun
    /\ cli = NotRun
    /\ par = NotRun
    /\ probe = NotRun

NextConc ==
    \E t \in Paths :
        \/ TaskCall(t)
        \/ TaskReadOk(t)
        \/ TaskReadFail(t)
        \/ TaskHeaderMiss(t)
        \/ TaskFrameInvalid(t)
        \/ TaskFrameModify(t)
        \/ TaskNegatePanic(t)
        \/ TaskWriteCreate(t)
        \/ TaskWriteCreateFail(t)
        \/ TaskWriteAll(t)
        \/ TaskWriteAllFail(t)

SpecConc == InitConc /\ [][NextConc]_vars

---------------------------------------------------------------------------
(* extract_loudnorm_json (src/src/analyzer.rs) *)

(* ffmpeg's stderr is a sequence of tokens: "{" and "}", "M" for the text       *)
(* "[Parsed_loudnorm_0 @", "I" for the text "input_i" (in its quotes) with the  *)
(* values and the other nine fields of a loudnorm object, "x" for any other     *)
(* text.  Neither searched text holds a brace or overlaps itself, so the        *)
(* searches and the brace count of the code see the tokens as they see the      *)
(* characters.                                                                  *)

\* the number of tokens of the longest stderr
MaxTokens == 7

StderrTokens == {"{", "}", "M", "I", "x"}

RECURSIVE StderrsOf(_)
\* the stderr texts of at most n tokens
StderrsOf(n) ==
    IF n = 0 THEN {<<>>}
    ELSE LET shorter == StderrsOf(n - 1)
         IN  shorter \cup {Append(t, c) : t \in shorter, c \in StderrTokens}

\* str::find: the position (from 1) of the first c in t, 0 for None
find(t, c) ==
    IF \E i \in 1..Len(t) : t[i] = c
    THEN CHOOSE i \in 1..Len(t) : t[i] = c /\ \A j \in 1..(i - 1) : t[j] # c
    ELSE 0

\* str::rfind: the position (from 1) of the last c in t, 0 for None
rfind(t, c) ==
    IF \E i \in 1..Len(t) : t[i] = c
    THEN CHOOSE i \in 1..Len(t) : t[i] = c /\ \A j \in (i + 1)..Len(t) : t[j] # c
    ELSE 0

RECURSIVE json_end(_, _, _)
\* for (i, ch) in json_section.char_indices() { ... }: the position of the brace
\* that brings depth to 0, from position i on with the depth so far; 0 for None
json_end(json_section, i, depth) ==
    IF i > Len(json_section) THEN 0
    ELSE IF json_section[i] = "{" THEN json_end(json_section, i + 1, depth + 1)
    ELSE IF json_section[i] = "}"
         THEN IF depth - 1 = 0 THEN i
              ELSE json_end(json_section, i + 1, depth - 1)
    ELSE json_end(json_section, i + 1, depth)

\* serde_json::from_str::<LoudnormOutput>(json_str) succeeds: an object that holds
\* the ten fields and nothing else
deserializes(json_str) == json_str = <<"{", "I", "}">>

\* Ok(LoudnormOutput), the failure of serde_json with the context of the marker
\* branch, and the final Err(anyhow!("No loudnorm data found ..."))
Loudnorm(json_str) == [tag |-> "Ok", json |-> json_str]
ParseFailure == [tag |-> "Err", what |-> "Failed to parse loudnorm JSON"]
NoLoudnormData == [tag |-> "Err", what |-> "No loudnorm data found"]

\* the fallback: the block opened by the last '{' before the last "input_i"
loudnorm_fallback(t) ==
    LET input_i_pos == rfind(t, "I")
        json_start == IF input_i_pos = 0 THEN 0
                      ELSE rfind(SubSeq(t, 1, input_i_pos - 1), "{")
        json_section == IF json_start = 0 THEN <<>> ELSE SubSeq(t, json_start, Len(t))
        end == json_end(json_section, 1, 0)
    IN  IF input_i_pos # 0 /\ json_start # 0 /\ end # 0
           /\ deserializes(SubSeq(json_section, 1, end))
        THEN Loudnorm(SubSeq(json_section, 1, end))
        ELSE NoLoudnormData

\* extract_loudnorm_json that takes the first '{' of stderr when the marker is there
extract_loudnorm_json_first_brace(t) ==
    LET marker_pos == find(t, "M")
        json_start == find(t, "{")
        json_section == IF json_start = 0 THEN <<>> ELSE SubSeq(t, json_start, Len(t))
        end == json_end(json_section, 1, 0)
    IN  IF marker_pos # 0 /\ json_start # 0 /\ end # 0
        THEN IF deserializes(SubSeq(json_section, 1, end))
             THEN Loudnorm(SubSeq(json_section, 1, end))
             ELSE ParseFailure
        ELSE loudnorm_fallback(t)

\* extract_loudnorm_json(stderr: &str, path: &Path) -> Result<LoudnormOutput>
extract_loudnorm_json(t) ==
    LET marker_pos == find(t, "M")
        after_marker == IF marker_pos = 0 THEN <<>> ELSE SubSeq(t, marker_pos, Len(t))
        json_start == find(after_marker, "{")
        json_section == IF json_start = 0 THEN <<>>
                        ELSE SubSeq(after_marker, json_start, Len(after_marker))
        end == json_end(json_section, 1, 0)
    IN  IF marker_pos # 0 /\ json_start # 0 /\ end # 0
        THEN IF deserializes(SubSeq(json_section, 1, end))
             THEN Loudnorm(SubSeq(json_section, 1, end))
             ELSE ParseFailure
        ELSE loudnorm_fallback(t)

\* let loudnorm = extract_loudnorm_json(&stderr, path)
ExtractLoudnorm ==
    /\ pc = "extract"
    /\ out' = extract_loudnorm_json(stderr)
    /\ pc' = "extracted"
    /\ UNCHANGED <<fsVars, gain_steps, data, file_size, pos, modified_frames, result,
                   ghostVars, hdrVars, acc_loc, acc_value, stderr, concVars, appVars>>

InitExtract ==
    /\ stderr \in StderrsOf(MaxTokens)
    /\ out = NotRun
    /\ pc = "extract"
    /\ at_rest
    /\ data = <<>>
    /\ pos = 0
    /\ before = <<>>
    /\ hdr_in = <<>>
    /\ hdr_out = NotRun
    /\ acc_loc = NoLocation
    /\ acc_value = 0
    /\ disks = <<>>
    /\ tasks = <<>>

NextExtract == ExtractLoudnorm

SpecExtract == InitExtract /\ [][NextExtract]_vars

---------------------------------------------------------------------------
(* Properties of apply_gain *)

\* bit k (0 the most significant) of byte b
BitOf(b, k) == (b \div (2 ^ (7 - k))) % 2

\* the file bits (8 * byte + bit) of the global_gain fields of the frames fs
GainBits(fs) ==
    UNION {UNION {LET loc == calculate_gain_locations(fs[i].pos, fs[i].header)[j]
                      first == 8 * loc.byte_offset + loc.bit_offset
                  IN  first..(first + 7) :
                  j \in 1..Len(calculate_gain_locations(fs[i].pos, fs[i].header))} :
           i \in 1..Len(fs)}

\* the call returned Ok
returned_ok == pc = "done" /\ result.tag = "Ok"

RECURSIVE CountFrames(_, _)
\* the number of candidates, met from position p on in the content d, whose header
\* parses and whose frame ends at a sync pattern or at the end of d
CountFrames(d, p) ==
    IF p + 4 > Len(d) THEN 0
    ELSE LET h == header_at(d, p)
         IN  IF h = None THEN CountFrames(d, p + 1)
             ELSE IF ~valid_frame(d, Len(d), p + h.frame_size) THEN CountFrames(d, p + 1)
             ELSE 1 + CountFrames(d, p + h.frame_size)

\* C1: the buffer keeps the length of the file that was read all through the walk,
\* the buffer handed to fs::write has that length, and when apply_gain returns Ok
\* the file has the length it had before the call.
C1_FileLengthUnchanged ==
    /\ pc \in {"walk", "writing"} => Len(data) = Len(before) /\ file_size = Len(before)
    /\ writes = 1 => Len(handed) = Len(before)
    /\ returned_ok => Len(disk) = Len(before)

\* C1 witness: a call returned Ok after rewriting frames of a file it changed.
C1_Witness ==
    returned_ok /\ gain_steps # 0 /\ result.n >= 2 /\ disk # before

\* C2 (as claimed): a call with S and then a call with -S, both Ok and with no
\* field reaching 0 or 255 in either, leave the file as it was before the first.
C2_RoundTripRestores ==
    (/\ returned_ok
     /\ prev.tag = "Call"
     /\ prev.result.tag = "Ok"
     /\ prev.steps # 0
     /\ prev.steps + gain_steps = 0
     /\ ~prev.sat
     /\ ~sat)
    => disk = prev.before

\* C3: when apply_gain returns Ok, every bit of the file outside the global_gain
\* fields of the frames the walker validated is what it was before the call.
C3_OnlyGainBitsChange ==
    returned_ok =>
        /\ Len(disk) = Len(before)
        /\ LET gain_bits == GainBits(frames)
           IN  \A i \in 1..Len(before) :
                   disk[i] # before[i] =>
                       \A k \in 0..7 :
                           BitOf(disk[i], k) # BitOf(before[i], k)
                               => (8 * (i - 1) + k) \in gain_bits

\* C3 witness: a call returned Ok, having skipped bytes before its first frame and
\* changed the file.
C3_Witness ==
    /\ returned_ok
    /\ Len(frames) >= 1
    /\ frames[1].pos > 0
    /\ disk # before

\* C4: apply_gain(path, 0) returns Ok(0) with no read and no write, the file
\* unchanged, whether or not the file can be read.
C4_ZeroStepsNoIO ==
    (pc = "done" /\ gain_steps = 0) =>
        /\ result = Ok(0)
        /\ reads = 0
        /\ writes = 0
        /\ disk = before

\* C4 witness: a call with 0 steps returned on a file that cannot be read.
C4_Witness ==
    pc = "done" /\ calls = 1 /\ gain_steps = 0 /\ ~readable /\ result = Ok(0)

\* min(255, v + min(steps, 255)) for steps > 0, max(0, v - min(-steps, 255)) for
\* steps < 0
ClampedGain(v, steps) ==
    IF steps > 0
    THEN Min(255, v + Min(steps, 255))
    ELSE LET decrease == IF steps <= -255 THEN 255 ELSE -steps
         IN  IF v - decrease < 0 THEN 0 ELSE v - decrease

\* C5 (as claimed): when apply_gain returns Ok, every global_gain field of every
\* validated frame holds the clamped sum of its value before the call and the steps.
C5_GainsClamped ==
    (returned_ok /\ gain_steps # 0) =>
        \A i \in 1..Len(frames) :
            LET locations == calculate_gain_locations(frames[i].pos, frames[i].header)
            IN  \A j \in 1..Len(locations) :
                    read_gain_at(disk, locations[j])
                        = ClampedGain(read_gain_at(before, locations[j]), gain_steps)

\* C6: when apply_gain returns Ok with steps # 0, the number returned is the number
\* of frames validated and rewritten, each once (they lie one after the other), and
\* it is the number of candidates of the original content that parse and end at a
\* sync pattern or at the end of the file, met on the walk from the tag's end.
C6_FrameCount ==
    (returned_ok /\ gain_steps # 0) =>
        /\ result.n = Len(frames)
        /\ \A i \in 1..Len(frames) :
               /\ header_at(before, frames[i].pos) = frames[i].header
               /\ valid_frame(before, Len(before),
                              frames[i].pos + frames[i].header.frame_size)
               /\ i > 1 => frames[i - 1].pos + frames[i - 1].header.frame_size
                               <= frames[i].pos
        /\ result.n = CountFrames(before, skip_id3v2(before))

\* C6 witness: a call returned a count of 2 after the walker had rejected a
\* candidate whose header parses (the first frame starts after the tag's end).
C6_Witness ==
    /\ returned_ok
    /\ gain_steps # 0
    /\ result.n = 2
    /\ frames[1].pos > skip_id3v2(before)
    /\ header_at(before, skip_id3v2(before)) # None

\* C7 (as claimed): when a call is over, the file holds the original content or the
\* whole buffer handed to fs::write; after a failed read no write was attempted.
C7_NoPartialState ==
    pc = "done" =>
        /\ disk = before \/ (writes = 1 /\ disk = handed)
        /\ result = Err("read") => (writes = 0 /\ disk = before)

\* C8 (as claimed): a call with steps # 0 that got past the read ends with one
\* fs::read and one fs::write made, every buffer mutation made after the read and
\* before the write.
C8_OneReadOneWrite ==
    (pc = "done" /\ gain_steps # 0 /\ result # Err("read")) =>
        /\ reads = 1
        /\ writes = 1
        /\ mutated \subseteq {<<1, 0>>}

---------------------------------------------------------------------------
(* Properties of parse_header *)

\* the conditions under which a 4-byte input is a Layer III header
Accepted(h) ==
    /\ h[1] = 255
    /\ h[2] \div 32 = 7
    /\ (h[2] \div 8) % 4 # 1
    /\ (h[2] \div 2) % 4 = 1
    /\ (h[3] \div 16) \in 1..14
    /\ (h[3] \div 4) % 4 # 3

\* C9: parse_header returns a header exactly for the inputs with the sync, a version
\* other than 01, layer bits 01, a bitrate index in 1..14 and a sample-rate index
\* other than 3.
C9_HeaderAccepted ==
    pc = "parsed" => ((hdr_out # None) <=> Accepted(hdr_in))

\* C9 witness: FF FF 90 00 (Layer I) was parsed and gave no header.
C9_Witness ==
    pc = "parsed" /\ hdr_in = <<255, 255, 144, 0>> /\ hdr_out = None

\* the version, bitrate, sample rate and channel mode of the MPEG audio tables
TableVersion(h) ==
    CASE (h[2] \div 8) % 4 = 3 -> "Mpeg1"
      [] (h[2] \div 8) % 4 = 2 -> "Mpeg2"
      [] OTHER -> "Mpeg25"

TableBitrate(h) ==
    IF TableVersion(h) = "Mpeg1"
    THEN <<32, 40, 48, 56, 64, 80, 96, 112, 128, 160, 192, 224, 256, 320>>[h[3] \div 16]
    ELSE <<8, 16, 24, 32, 40, 48, 56, 64, 80, 96, 112, 128, 144, 160>>[h[3] \div 16]

TableSampleRate(h) ==
    <<44100, 48000, 32000>>[((h[3] \div 4) % 4) + 1]
        \div (CASE TableVersion(h) = "Mpeg1" -> 1
                [] TableVersion(h) = "Mpeg2" -> 2
                [] OTHER -> 4)

TableChannelMode(h) ==
    <<"Stereo", "JointStereo", "DualChannel", "Mono">>[(h[4] \div 64) + 1]

\* C10: an accepted header's fields are those of the tables, CRC is present exactly
\* when the protection bit is 0, and frame_size is
\* floor(samples * bitrate * 125 / sample_rate) + padding with 1152 samples for MPEG1
\* and 576 otherwise; FF FB 90 00 is MPEG1, Layer III, 128 kbps, 44100 Hz, Stereo.
C10_HeaderFields ==
    (pc = "parsed" /\ hdr_out # None) =>
        /\ hdr_out.version = TableVersion(hdr_in)
        /\ hdr_out.layer = 3
        /\ hdr_out.bitrate_kbps = TableBitrate(hdr_in)
        /\ hdr_out.sample_rate = TableSampleRate(hdr_in)
        /\ hdr_out.channel_mode = TableChannelMode(hdr_in)
        /\ hdr_out.has_crc = (hdr_in[2] % 2 = 0)
        /\ hdr_out.padding = ((hdr_in[3] \div 2) % 2 = 1)
        /\ hdr_out.frame_size =
               ((IF hdr_out.version = "Mpeg1" THEN 1152 ELSE 576)
                    * hdr_out.bitrate_kbps * 125) \div hdr_out.sample_rate
               + (IF (hdr_in[3] \div 2) % 2 = 1 THEN 1 ELSE 0)
        /\ hdr_in = <<255, 251, 144, 0>> =>
               /\ hdr_out.version = "Mpeg1"
               /\ hdr_out.bitrate_kbps = 128
               /\ hdr_out.sample_rate = 44100
               /\ hdr_out.channel_mode = "Stereo"
               /\ hdr_out.frame_size = 417

\* C10 witness: FF FB 90 00 was parsed and gave a header of 417 bytes.
C10_Witness ==
    /\ pc = "parsed"
    /\ hdr_in = <<255, 251, 144, 0>>
    /\ hdr_out # None
    /\ hdr_out.frame_size = 417


---------------------------------------------------------------------------
(* Properties of skip_id3v2 *)

\* byte i of the buffer d, 0 where d has no byte i
ByteOrZero(d, i) == IF i < Len(d) THEN At(d, i) ELSE 0

\* the 28-bit syncsafe integer of the low 7 bits of bytes 6..9, most significant
\* first
SyncsafeSize(d) ==
    (ByteOrZero(d, 6) % 128) * 2097152 + (ByteOrZero(d, 7) % 128) * 16384
    + (ByteOrZero(d, 8) % 128) * 128 + (ByteOrZero(d, 9) % 128)

\* the buffer begins with "ID3"
HasSignature(d) == Len(d) >= 3 /\ d[1] = 73 /\ d[2] = 68 /\ d[3] = 51

\* C11 as stated: every buffer that begins with "ID3" gives 10 + size, every other
\* buffer gives 0.  Fails for a buffer of fewer than 10 bytes that begins with
\* "ID3": the skipper returns 0, less than the 10 of any 10 + size.
C11_SignatureGivesOffset ==
    pc = "skipped" =>
        pos = (IF HasSignature(data) THEN 10 + SyncsafeSize(data) ELSE 0)

\* C11, amended: a buffer of at least 10 bytes that begins with "ID3" gives
\* 10 + size, size the 28-bit syncsafe integer of the low 7 bits of bytes 6..9,
\* most significant first; every other buffer, the shorter ones that begin with
\* "ID3" included, gives 0; every input gives a result.
C11_SkipOffset ==
    pc = "skipped" =>
        /\ pos \in Nat
        /\ pos = (IF HasSignature(data) /\ Len(data) >= 10
                  THEN 10 + SyncsafeSize(data) ELSE 0)

\* a 12-byte buffer with a tag header whose size bytes are FF 00 00 80 was
\* skipped to 10 + 127 * 2^21
C11_Witness ==
    /\ pc = "skipped"
    /\ HasSignature(data) /\ Len(data) = 12
    /\ At(data, 6) = 255 /\ At(data, 7) = 0 /\ At(data, 8) = 0 /\ At(data, 9) = 128
    /\ pos = 10 + 127 * 2097152


---------------------------------------------------------------------------
(* Properties of calculate_gain_locations *)

\* granules 2 for MPEG1, else 1
GranuleCount(h) == IF h.version = "Mpeg1" THEN 2 ELSE 1

\* channels 1 for Mono, else 2
ChannelCount(h) == IF h.channel_mode = "Mono" THEN 1 ELSE 2

\* MPEG1 mono 18, MPEG1 other 20, MPEG2/2.5 mono 9, MPEG2/2.5 other 10
BitsBeforeGranules(h) ==
    IF h.version = "Mpeg1"
    THEN (IF ChannelCount(h) = 1 THEN 18 ELSE 20)
    ELSE (IF ChannelCount(h) = 1 THEN 9 ELSE 10)

\* 59 for MPEG1, 63 for MPEG2/2.5
BitsPerGranuleChannel(h) == IF h.version = "Mpeg1" THEN 59 ELSE 63

\* the side-info bit of the global_gain of granule g, channel c
SideInfoBit(h, g, c) ==
    BitsBeforeGranules(h) + (g * ChannelCount(h) + c) * BitsPerGranuleChannel(h) + 21

\* C12: for a frame at offset F with an accepted header the locator returns
\* exactly granuleCount * channelCount locations, granule-major and channel-minor,
\* the entry of (g, c) at byteOffset F + (hasCrc ? 6 : 4) + b div 8 and bitOffset
\* b mod 8 for the side-info bit b of (g, c).
C12_GainLocations ==
    pc = "located" =>
        LET h == hdr_out
        IN  /\ Len(out) = GranuleCount(h) * ChannelCount(h)
            /\ \A g \in 0..(GranuleCount(h) - 1) : \A c \in 0..(ChannelCount(h) - 1) :
                   LET b == SideInfoBit(h, g, c)
                   IN  out[g * ChannelCount(h) + c + 1] =
                           [byte_offset |-> pos + (IF h.has_crc THEN 6 ELSE 4) + b \div 8,
                            bit_offset |-> b % 8]

\* an MPEG1 stereo frame with CRC at offset 10 was located: four fields, at side-info
\* bits 41, 100, 159 and 218
C12_Witness ==
    /\ pc = "located"
    /\ pos = 10
    /\ hdr_out.version = "Mpeg1" /\ hdr_out.channel_mode = "Stereo" /\ hdr_out.has_crc
    /\ out = <<[byte_offset |-> 21, bit_offset |-> 1],
               [byte_offset |-> 28, bit_offset |-> 4],
               [byte_offset |-> 35, bit_offset |-> 7],
               [byte_offset |-> 43, bit_offset |-> 2]>>


---------------------------------------------------------------------------
(* Properties of read_gain_at and write_gain_at *)

\* the location has a following byte in the buffer
HasFollowingByte(d, l) == l.byte_offset + 1 < Len(d)

\* C13: for every buffer, every location with a following byte available, every
\* bit offset 0..7 and every value v in 0..255, the read that follows the write of
\* v at the location returns v.
C13_WriteThenRead ==
    (pc = "got" /\ HasFollowingByte(data, acc_loc)) => out = acc_value

\* 0x99 was written at bit 4 of byte 1 of AB CD EF 12 34 and read back
C13_Witness ==
    /\ pc = "got"
    /\ before = <<171, 205, 239, 18, 52>>
    /\ acc_loc = [byte_offset |-> 1, bit_offset |-> 4]
    /\ acc_value = 153
    /\ out = 153

\* bit j (8 * byte + bit, bit 0 the most significant) of the buffer d
BufferBit(d, j) == BitOf(At(d, j \div 8), j % 8)

\* the first bit of the field at the location
FirstBit(l) == 8 * l.byte_offset + l.bit_offset

\* C14: write_gain_at changes only the 8 bits that start at bit bit_offset of byte
\* byte_offset: the buffer keeps its length, and every bit before the field (the
\* top bit_offset bits of the first byte included) and after it (the low
\* 8 - bit_offset bits of the second byte included) is as it was.
C14_WriteFrame ==
    pc \in {"read", "got"} =>
        /\ Len(data) = Len(before)
        /\ \A j \in 0..(8 * Len(before) - 1) :
               (j < FirstBit(acc_loc) \/ j > FirstBit(acc_loc) + 7)
                   => BufferBit(data, j) = BufferBit(before, j)

\* 0x99 written at bit 4 of byte 1 of AB CD EF 12 34 gave AB C9 9F 12 34
C14_Witness ==
    /\ pc = "read"
    /\ before = <<171, 205, 239, 18, 52>>
    /\ acc_loc = [byte_offset |-> 1, bit_offset |-> 4]
    /\ acc_value = 153
    /\ data = <<171, 201, 159, 18, 52>>


---------------------------------------------------------------------------
(* Properties of the frame walk *)

\* a header parses at p and, with nextPos = p + frameSizeBytes, either at least 2
\* bytes exist at nextPos and are 0xFF and a byte whose top 3 bits are 111, or
\* fewer than 2 bytes remain at nextPos and nextPos <= bufferLength
PassesTest(d, p) ==
    LET h == header_at(d, p)
    IN  /\ h # None
        /\ LET nextPos == p + h.frame_size
           IN  \/ /\ Len(d) - nextPos >= 2
                  /\ d[nextPos + 1] = 255
                  /\ d[nextPos + 2] \div 32 = 7
               \/ /\ Len(d) - nextPos < 2
                  /\ nextPos <= Len(d)

\* the buffer d with the gain fields of the candidate at p rewritten
Rewritten(d, p, steps) ==
    modify_gains(d, calculate_gain_locations(p, header_at(d, p)), 1, steps)

\* C15 (as claimed): in every iteration of the walk, the gain fields of the
\* candidate at pos are rewritten if and only if the candidate passes the test; a
\* candidate that fails it leaves the buffer as it is.  Fails for steps = i32::MIN
\* in a build with overflow checks: the candidate passes and the call panics
\* before the first field is written.
C15_RewriteIffValidated ==
    [][in_loop =>
          IF PassesTest(data, pos)
          THEN /\ data' = Rewritten(data, pos, gain_steps)
               /\ frames' = Append(frames, [pos |-> pos, header |-> header_at(data, pos)])
          ELSE /\ data' = data
               /\ frames' = frames]_vars

\* C16: in every iteration of the walk a rejected candidate (no header, or a
\* header that fails the test) moves the scan position from pos to pos + 1, and a
\* move to anything but pos + 1 is a move to pos + frameSizeBytes of a candidate
\* that passed the test.
C16_ScanPosition ==
    [][in_loop =>
          /\ ~PassesTest(data, pos) => (pc' = "walk" /\ pos' = pos + 1)
          /\ (pc' = "walk" /\ pos' # pos + 1) =>
                 /\ PassesTest(data, pos)
                 /\ pos' = pos + header_at(data, pos).frame_size]_vars

\* the header at 0 parsed and failed the test, the walk went on byte by byte to
\* the frame at 16 and jumped from there to 40
C16_Witness ==
    /\ pc = "walk"
    /\ header_at(before, 0) # None
    /\ ~PassesTest(before, 0)
    /\ Len(frames) = 1
    /\ frames[1].pos = 16
    /\ pos = 40

\* C17 (as claimed): a call with -S right after a call with S, both Ok, returns the
\* frame count the first call returned.  Fails where the gain the first call
\* wrote completes a sync pattern that validates a candidate the first call
\* rejected.
C17_SameFrameCount ==
    (/\ returned_ok
     /\ prev.tag = "Call"
     /\ prev.result.tag = "Ok"
     /\ prev.steps # 0
     /\ prev.steps + gain_steps = 0)
    => result.n = prev.result.n

\* C20 (as claimed): every iteration of the loop leaves the call in the loop with
\* a scan position that is greater by 1 or by the frame size, the buffer length
\* unchanged, and once fewer than 4 bytes remain from the position the next step
\* of the call is the write.  Fails for steps = i32::MIN in a build with overflow
\* checks: the iteration at the first valid frame ends the call with a panic and
\* the write is never reached.
C20_WalkReachesWrite ==
    [][pc = "walk" =>
          IF pos + 4 <= file_size
          THEN /\ pc' = "walk"
               /\ file_size' = file_size
               /\ pos' > pos
               /\ \/ pos' = pos + 1
                  \/ /\ header_at(data, pos) # None
                     /\ pos' = pos + header_at(data, pos).frame_size
          ELSE writes' = writes + 1]_vars


---------------------------------------------------------------------------
(* Properties of concurrent calls *)

RECURSIVE LoneWalk(_, _, _, _)
\* the buffer and the count a walk of d from position p on ends with, n frames
\* counted so far
LoneWalk(d, p, n, steps) ==
    IF p + 4 > Len(d) THEN [data |-> d, count |-> n]
    ELSE LET h == header_at(d, p)
         IN  IF h = None THEN LoneWalk(d, p + 1, n, steps)
             ELSE IF ~valid_frame(d, Len(d), p + h.frame_size)
                  THEN LoneWalk(d, p + 1, n, steps)
             ELSE LoneWalk(Rewritten(d, p, steps), p + h.frame_size, n + 1, steps)

\* what a lone apply_gain(path, steps) on a file of the given content ends with:
\* the results it may return, each with the content it leaves
LoneOutcomes(content, steps) ==
    IF steps = 0 THEN {[result |-> Ok(0), disk |-> content]}
    ELSE IF ~readable THEN {[result |-> Err("read"), disk |-> content]}
    ELSE IF /\ overflow_checks /\ steps = I32Min
            /\ CountFrames(content, skip_id3v2(content)) > 0
         THEN {[result |-> Panic, disk |-> content]}
    ELSE LET walked == LoneWalk(content, skip_id3v2(content), 0, steps)
         IN  {[result |-> Ok(walked.count), disk |-> walked.data],
              [result |-> Err("write"), disk |-> content]}
             \cup {[result |-> Err("write"), disk |-> SubSeq(walked.data, 1, k)] :
                      k \in PartialLengths(walked.data)}

\* C18: under every interleaving of the steps of concurrent calls on distinct
\* files, a call that is over has returned a result, and left its file with a
\* content, that a lone call with its step count on its file may end with; and
\* while a call has not written, its file has the content it had at the start.
C18_NoInterference ==
    \A t \in Paths :
        /\ tasks[t].pc = "done" =>
               [result |-> tasks[t].result, disk |-> disks[t]]
                   \in LoneOutcomes(tasks[t].before, tasks[t].gain_steps)
        /\ tasks[t].pc \in {"call", "read", "walk"} => disks[t] = tasks[t].before

\* both calls are over: the call on a.mp3 modified two frames with +10, the call on
\* b.mp3 one frame with -10, and both files changed
C18_Witness ==
    /\ tasks["a.mp3"].pc = "done" /\ tasks["b.mp3"].pc = "done"
    /\ tasks["a.mp3"].result = Ok(2) /\ tasks["b.mp3"].result = Ok(1)
    /\ tasks["a.mp3"].gain_steps = 10 /\ tasks["b.mp3"].gain_steps = -10
    /\ disks["a.mp3"] # tasks["a.mp3"].before
    /\ disks["b.mp3"] # tasks["b.mp3"].before


---------------------------------------------------------------------------
(* Properties of extract_loudnorm_json *)

\* the opening braces less the closing braces among tokens j..e of t
BraceBalance(t, j, e) ==
    Cardinality({i \in j..e : t[i] = "{"}) - Cardinality({i \in j..e : t[i] = "}"})

\* a brace-balanced block begins at the opening brace at j
HasBlockAt(t, j) == \E e \in j..Len(t) : BraceBalance(t, j, e) = 0

\* the first brace-balanced block that begins at the opening brace at j
BlockAt(t, j) ==
    LET e == CHOOSE e \in j..Len(t) :
                 /\ BraceBalance(t, j, e) = 0
                 /\ \A k \in j..(e - 1) : BraceBalance(t, j, k) # 0
    IN  SubSeq(t, j, e)

\* the marker is in t
HasMarker(t) == \E i \in 1..Len(t) : t[i] = "M"

\* the position of the first '{' after the first marker, 0 if there is none
MarkerBrace(t) ==
    LET after == {j \in 1..Len(t) : t[j] = "{" /\ \E i \in 1..(j - 1) : t[i] = "M"}
    IN  IF after = {} THEN 0 ELSE CHOOSE j \in after : \A k \in after : j <= k

\* the position of the last '{' before the last "input_i", 0 if there is none
FallbackBrace(t) ==
    LET keys == {i \in 1..Len(t) : t[i] = "I"}
        last == IF keys = {} THEN 0 ELSE CHOOSE i \in keys : \A k \in keys : k <= i
        opening == {j \in 1..(last - 1) : t[j] = "{"}
    IN  IF opening = {} THEN 0 ELSE CHOOSE j \in opening : \A k \in opening : k <= j

\* a brace-balanced block begins at the first '{' after the marker
HasMarkerBlock(t) == MarkerBrace(t) # 0 /\ HasBlockAt(t, MarkerBrace(t))

\* a brace-balanced block begins at the last '{' before the last "input_i"
HasFallbackBlock(t) == FallbackBrace(t) # 0 /\ HasBlockAt(t, FallbackBrace(t))

\* what the parse of the block b gives in the marker branch
FromStr(b) == IF deserializes(b) THEN Loudnorm(b) ELSE ParseFailure

\* what the fallback gives: its block if there is one that deserializes
FromFallback(t) ==
    IF HasFallbackBlock(t) /\ deserializes(BlockAt(t, FallbackBrace(t)))
    THEN Loudnorm(BlockAt(t, FallbackBrace(t)))
    ELSE NoLoudnormData

\* t without its i-th token
Without(t, i) == SubSeq(t, 1, i - 1) \o SubSeq(t, i + 1, Len(t))

\* the opening brace of the block that is parsed, 0 if there is none
ChosenBrace(t) == IF HasMarkerBlock(t) THEN MarkerBrace(t) ELSE FallbackBrace(t)

\* the same loudnorm object, or an error both
SameResult(r1, r2) == IF r1.tag = "Ok" THEN r1 = r2 ELSE r2.tag = "Err"

\* the result is the one for the text without any one brace that precedes the
\* chosen opening brace
BracesBeforeIgnored(t, r) ==
    \A i \in 1..(ChosenBrace(t) - 1) :
        t[i] \in {"{", "}"} => SameResult(extract_loudnorm_json(Without(t, i)), r)

\* C19 as stated: with the marker in stderr the JSON that is parsed is the first
\* brace-balanced block at the first '{' after the marker; without it, it is the
\* block at the last '{' before the last "input_i"; braces before the chosen
\* brace do not alter the result.  Fails for M { { I }: no balanced block begins
\* at the first '{' after the marker and the block { I } of the fallback is
\* returned; and for M { { { I } }, where the fallback returns { I } and the text
\* without the first brace gives an error.
C19_MarkerOrFallback ==
    pc = "extracted" =>
        /\ (HasMarker(stderr) /\ out.tag = "Ok") =>
               HasMarkerBlock(stderr) /\ out.json = BlockAt(stderr, MarkerBrace(stderr))
        /\ ~HasMarker(stderr) => out = FromFallback(stderr)
        /\ BracesBeforeIgnored(stderr, out)

\* C19, amended: when a brace-balanced block begins at the first '{' after the
\* marker, the result is the parse of that block; in every other case (no marker,
\* no '{' after it, or no balanced block there) the result is the block at the
\* last '{' before the last "input_i" if that block deserializes, and the error
\* otherwise.  When the block after the marker is parsed, and when there is no
\* marker, a brace before the chosen opening brace alters neither whether a
\* loudnorm object is returned nor which one.
C19_ChosenBlock ==
    pc = "extracted" =>
        /\ HasMarkerBlock(stderr) =>
               out = FromStr(BlockAt(stderr, MarkerBrace(stderr)))
        /\ ~HasMarkerBlock(stderr) => out = FromFallback(stderr)
        /\ (HasMarkerBlock(stderr) \/ ~HasMarker(stderr)) =>
               BracesBeforeIgnored(stderr, out)

\* metadata with two unbalanced opening braces, the marker, the loudnorm object:
\* the object was returned
C19_Witness ==
    /\ pc = "extracted"
    /\ stderr = <<"{", "x", "{", "M", "{", "I", "}">>
    /\ out = Loudnorm(<<"{", "I", "}">>)


---------------------------------------------------------------------------
(* Properties of the gain arithmetic and of the frames of one call *)

\* min(-steps, 255) for a negative i32 steps, computed in the integers
Decrease(steps) == IF steps <= -255 THEN 255 ELSE -steps

\* C21 (as claimed): a call with a negative step count does not abort, and when
\* it returns Ok every global_gain field of every validated frame holds its
\* value before the call less min(-steps, 255), clamped at 0 (so 0 for any
\* steps <= -255).  Fails for steps = i32::MIN: -gain_steps overflows, the call
\* panics in a build with overflow checks and subtracts 0 in a build that wraps.
C21_DecreaseWithoutOverflow ==
    gain_steps < 0 =>
        /\ result # Panic
        /\ returned_ok =>
               \A i \in 1..Len(frames) :
                   LET locations ==
                           calculate_gain_locations(frames[i].pos, frames[i].header)
                   IN  \A j \in 1..Len(locations) :
                           LET v == read_gain_at(before, locations[j])
                           IN  /\ read_gain_at(disk, locations[j])
                                      = saturating_sub(v, Decrease(gain_steps))
                               /\ gain_steps <= -255
                                      => read_gain_at(disk, locations[j]) = 0

\* the 8-bit field at loc lies after the 4 header bytes of the frame of header h
\* at p and inside the frame, and the frame lies inside a buffer of the length
FieldInsideFrame(p, h, loc, length) ==
    /\ p + 4 <= loc.byte_offset
    /\ loc.byte_offset + 1 < p + h.frame_size
    /\ p + h.frame_size <= length

\* the locations of a located frame lie after its header and inside it
LocatedFieldsInsideFrame ==
    pc = "located" =>
        \A j \in 1..Len(out) :
            FieldInsideFrame(pos, hdr_out, out[j], pos + hdr_out.frame_size)

\* C22: every gain location of every frame a call validated lies after the
\* frame's 4 header bytes and, with the byte that follows it, inside the frame,
\* and the frame ends at or before the end of the buffer; so during the walk both
\* bytes of every field read and written exist in the buffer.
C22_GainFieldsInsideFrame ==
    /\ \A i \in 1..Len(frames) :
           LET locations == calculate_gain_locations(frames[i].pos, frames[i].header)
           IN  \A j \in 1..Len(locations) :
                   FieldInsideFrame(frames[i].pos, frames[i].header, locations[j],
                                    Len(before))
    /\ pc = "walk" =>
           \A i \in 1..Len(frames) :
               LET locations == calculate_gain_locations(frames[i].pos, frames[i].header)
               IN  \A j \in 1..Len(locations) :
                       locations[j].byte_offset + 1 < Len(data)

\* C22 witness: the walk validated a 24-byte stereo frame with CRC that ends the
\* buffer, the frame with the least room after its last field (bytes 17 and 18
\* of 24), after another frame.
C22_Witness ==
    /\ pc = "walk"
    /\ Len(frames) = 2
    /\ frames[2].header.has_crc
    /\ frames[2].header.frame_size = 24
    /\ frames[2].pos + 24 = Len(data)
    /\ calculate_gain_locations(frames[2].pos, frames[2].header)[2].byte_offset
           = frames[2].pos + 17

RECURSIVE WalkPositions(_, _)
\* the positions, from p on, of the candidates of the content d that pass the
\* test, each search resumed at the end of the frame found; no step count enters
WalkPositions(d, p) ==
    IF p + 4 > Len(d) THEN <<>>
    ELSE IF PassesTest(d, p)
         THEN <<p>> \o WalkPositions(d, p + header_at(d, p).frame_size)
         ELSE WalkPositions(d, p + 1)

\* the positions of the frames fs
PositionsOf(fs) == [i \in 1..Len(fs) |-> fs[i].pos]

\* C23 (as claimed): a call with a nonzero step count that read the file and was
\* not stopped by a failing write validates the frame positions fixed by the
\* original content alone and returns their number, so two calls on the same
\* content with any two nonzero step counts validate the same positions and
\* return the same count.  Fails for steps = i32::MIN in a build with overflow
\* checks: the call panics at the first frame and returns no count.
C23_WalkIndependentOfSteps ==
    (/\ pc = "done"
     /\ gain_steps # 0
     /\ result \notin {Err("read"), Err("write")})
    => /\ PositionsOf(frames) = WalkPositions(before, skip_id3v2(before))
       /\ result = Ok(Len(WalkPositions(before, skip_id3v2(before))))

---------------------------------------------------------------------------
(* apply_gain on files that begin with an ID3v2 tag *)

\* a tag header (version 4.0, no flags) that declares the size, and the bytes
\* that follow it
TagOf(size, payload) ==
    ID3 \o <<4, 0, 0>>
    \o <<(size \div 2097152) % 128, (size \div 16384) % 128,
         (size \div 128) % 128, size % 128>>
    \o payload

\* the declared sizes: none, inside the bytes that follow, ending 4, 3 and 1
\* bytes before the end of a 34-byte file, at its end, past it, and the largest
TagSizes == {0, 4, 20, 21, 23, 24, 25, 200, 268435455}

\* the bytes after the tag header: a frame, two frames, a header and a frame, a
\* header that is rejected and a frame
TagPayloads ==
    {FrameMono, FrameMono \o FrameMono, HeaderMono \o FrameMono,
     JunkHeader \o FrameMono}

\* the files: every tag header before every payload, cut short of a tag header,
\* and a tag that holds a whole frame before two frames
TagFiles ==
    {TagOf(size, payload) : size \in TagSizes, payload \in TagPayloads}
    \cup {SubSeq(TagOf(4, FrameMono), 1, 9)}
    \cup {TagOf(24, FrameMono \o FrameMono \o FrameMono)}

InitTag ==
    /\ disk \in TagFiles
    /\ readable \in BOOLEAN
    /\ overflow_checks \in BOOLEAN
    /\ pc = "idle"
    /\ gain_steps = 0
    /\ data = <<>>
    /\ file_size = 0
    /\ pos = 0
    /\ modified_frames = 0
    /\ result = NoCall
    /\ calls = 0
    /\ reads = 0
    /\ writes = 0
    /\ mutated = {}
    /\ before = <<>>
    /\ frames = <<>>
    /\ sat = FALSE
    /\ prev = NoCall
    /\ handed = <<>>
    /\ hdr_in = <<>>
    /\ hdr_out = None
    /\ acc_loc = NoLocation
    /\ acc_value = 0
    /\ stderr = <<>>
    /\ disks = <<>>
    /\ tasks = <<>>
    /\ out = NotRun
    /\ proc = NotRun
    /\ cli = NotRun
    /\ par = NotRun
    /\ probe = NotRun

SpecTag == InitTag /\ [][Next]_vars

\* the end of the leading tag of the content d: 10 + the declared size where d
\* has a tag header, 0 where it has none
TagEnd(d) == IF HasSignature(d) /\ Len(d) >= 10 THEN 10 + SyncsafeSize(d) ELSE 0

\* the buffers d and e hold the same bytes below offset n
SameBelow(d, e, n) ==
    \A i \in 1..Min(n, Len(e)) : i <= Len(d) /\ d[i] = e[i]

\* C24: in the buffer of a call, in the buffer it hands to fs::write and in the
\* file after it returned Ok, every byte below the end of the leading tag is the
\* byte of the original file, and no validated frame starts below it; when the
\* tag ends within the last 3 bytes of the file or past its end, the call
\* validates no frame, mutates nothing, hands the original content to fs::write
\* and, the write done, returns Ok(0) with the file as it was.
C24_TagPreserved ==
    LET start == TagEnd(before)
    IN  /\ pc \in {"walk", "writing"} => SameBelow(data, before, start)
        /\ writes = 1 => SameBelow(handed, before, start)
        /\ returned_ok => SameBelow(disk, before, start)
        /\ \A i \in 1..Len(frames) : frames[i].pos >= start
        /\ (gain_steps # 0 /\ start + 4 > Len(before)) =>
               /\ frames = <<>>
               /\ mutated = {}
               /\ pc \in {"walk", "writing"} => data = before
               /\ writes = 1 => handed = before
               /\ pc = "done" => result \in {Ok(0), Err("read"), Err("write")}
               /\ returned_ok => disk = before

\* C24 witness: a call returned Ok(2) on a file whose 24-byte tag holds a whole
\* frame that passes the test, before two frames; the file changed.
C24_Witness ==
    /\ returned_ok
    /\ TagEnd(before) = 34
    /\ PassesTest(before, 10)
    /\ result = Ok(2)
    /\ disk # before
    /\ SubSeq(disk, 1, 34) = SubSeq(before, 1, 34)

\* the first bit (8 * byte + bit) of the field at loc
FieldBit(loc) == 8 * loc.byte_offset + loc.bit_offset

\* the validated frames fs lie one after the other: each starts at or after the
\* end of the one before
FramesInOrder(fs) ==
    \A i \in 2..Len(fs) : fs[i - 1].pos + fs[i - 1].header.frame_size <= fs[i].pos

\* no two of the 8-bit fields at the locations share a bit
FieldsApart(locations) ==
    \A j, k \in 1..Len(locations) :
        j # k => \/ FieldBit(locations[j]) + 8 <= FieldBit(locations[k])
                 \/ FieldBit(locations[k]) + 8 <= FieldBit(locations[j])

\* every field of the frames fs holds in d the value new_gain gives for its
\* value in the original content o
AdjustedOnce(d, o, fs, steps) ==
    \A i \in 1..Len(fs) :
        LET locations == calculate_gain_locations(fs[i].pos, fs[i].header)
        IN  \A j \in 1..Len(locations) :
                read_gain_at(d, locations[j])
                    = new_gain(read_gain_at(o, locations[j]), steps)

\* C25: the frames a call validated lie one after the other in increasing
\* order, the gain fields of one frame share no bit, and every field of every
\* frame validated so far holds one adjustment of its original value: in the
\* buffer during the walk, in the buffer handed to fs::write and in the file
\* after Ok.
C25_FieldsAdjustedOnce ==
    /\ FramesInOrder(frames)
    /\ \A i \in 1..Len(frames) :
           FieldsApart(calculate_gain_locations(frames[i].pos, frames[i].header))
    /\ pc \in {"walk", "writing"} => AdjustedOnce(data, before, frames, gain_steps)
    /\ writes = 1 => AdjustedOnce(handed, before, frames, gain_steps)
    /\ returned_ok => AdjustedOnce(disk, before, frames, gain_steps)

\* C25 witness: a call with +10 returned Ok after validating a frame of four
\* gain fields (two granules, two channels) and a frame after it.
C25_Witness ==
    /\ returned_ok
    /\ gain_steps = 10
    /\ Len(frames) = 2
    /\ Len(calculate_gain_locations(frames[1].pos, frames[1].header)) = 4
    /\ frames[2].pos = frames[1].pos + frames[1].header.frame_size
    /\ disk # before

---------------------------------------------------------------------------
(* process_file (src/src/processor.rs): the backup, then the gain operation *)

\* the gain methods process_file matches on
ProcMethods == {"FfmpegLossless", "Mp3Lossless", "Mp3Reencode", "None"}

\* proc with the events logged, at the position, with the error
proc_at(events, position, err) ==
    [proc EXCEPT !.ops = proc.ops \o events, !.pc = position, !.error = err,
                 !.success = (position = "done" /\ err = "None")]

\* process_file is entered: the two early returns with success = true, or on to
\* the backup (a backup directory is given) or to the gain operation
ProcessFile ==
    /\ proc.pc = "start"
    /\ proc' = IF proc.gain_method = "None" THEN proc_at(<<>>, "done", "None")
               ELSE IF proc.gain_method = "Mp3Reencode" /\ ~proc.allow_reencode
                    THEN proc_at(<<>>, "done", "None")
               ELSE IF proc.backup_dir THEN proc_at(<<>>, "backup", "None")
               ELSE proc_at(<<>>, "apply", "None")
    /\ UNCHANGED <<fsVars, callVars, ghostVars, hdrVars, fnVars, concVars, cli, par,
                   probe>>

\* BackupFile that goes on to the gain operation when the copy failed
BackupFile_ignoring_failure ==
    /\ proc.pc = "backup"
    /\ \E copied \in BOOLEAN :
           proc' = IF copied
                   THEN [proc_at(<<"backup">>, "apply", "None")
                            EXCEPT !.backed_up = TRUE]
                   ELSE proc_at(<<"backup_failed">>, "apply", "None")
    /\ UNCHANGED <<fsVars, callVars, ghostVars, hdrVars, fnVars, concVars, cli, par,
                   probe>>

\* backup_file: create_dir_all and fs::copy succeed, or one of them fails and
\* process_file returns "Backup failed"
BackupFile ==
    /\ proc.pc = "backup"
    /\ \E copied \in BOOLEAN :
           proc' = IF copied
                   THEN [proc_at(<<"backup">>, "apply", "None")
                            EXCEPT !.backed_up = TRUE]
                   ELSE proc_at(<<"backup_failed">>, "done", "Backup failed")
    /\ UNCHANGED <<fsVars, callVars, ghostVars, hdrVars, fnVars, concVars, cli, par,
                   probe>>

\* apply_gain_mp3_native: nothing to do for 0 steps; the path is no UTF-8, the
\* tool cannot be started, or it runs and fails (leaving the file as it was or
\* partly rewritten), or it runs and rewrites the file
ApplyGainMp3Native ==
    /\ proc.pc = "apply"
    /\ proc.gain_method = "Mp3Lossless"
    /\ LET fn == <<"apply_gain_mp3_native">>
           failed == "Gain adjustment failed"
       IN  IF proc.mp3_gain_steps = 0 THEN proc' = proc_at(fn, "done", "None")
           ELSE \/ proc' = proc_at(fn \o <<"invalid_path">>, "done", failed)
                \/ proc' = proc_at(fn \o <<"spawn_failed">>, "done", failed)
                \/ \E left \in {"original", "partial"} :
                       proc' = [proc_at(fn \o <<"tool_failed">>, "done", failed)
                                   EXCEPT !.original = left]
                \/ proc' = [proc_at(fn \o <<"tool_ok">>, "done", "None")
                               EXCEPT !.original = "processed"]
    /\ UNCHANGED <<fsVars, callVars, ghostVars, hdrVars, fnVars, concVars, cli, par,
                   probe>>

\* RunEncoder that leaves the temporary file where the encoder failed
RunEncoder_keeping_temp ==
    /\ proc.pc = "apply"
    /\ proc.gain_method \in {"FfmpegLossless", "Mp3Reencode"}
    /\ LET fn == IF proc.gain_method = "FfmpegLossless"
                 THEN <<"apply_gain_ffmpeg">> ELSE <<"apply_gain_mp3_reencode">>
           failed == "Gain adjustment failed"
       IN  \/ proc' = proc_at(fn \o <<"invalid_path">>, "done", failed)
           \/ proc' = proc_at(fn \o <<"spawn_failed">>, "done", failed)
           \/ \E wrote \in BOOLEAN :
                  proc' = [proc_at(fn \o <<"encoder_failed">>, "done", failed)
                              EXCEPT !.temp = wrote]
           \/ proc' = [proc_at(fn \o <<"encoder_ok">>, "encoded", "None")
                          EXCEPT !.temp = TRUE]
    /\ UNCHANGED <<fsVars, callVars, ghostVars, hdrVars, fnVars, concVars, cli, par,
                   probe>>

\* apply_gain_ffmpeg and apply_gain_mp3_reencode up to the encoder's exit: the
\* path is no UTF-8, the encoder cannot be started, the encoder fails (having
\* written a temporary file or not) and the temporary file is removed, or the
\* encoder succeeds and the temporary file holds the processed audio
RunEncoder ==
    /\ proc.pc = "apply"
    /\ proc.gain_method \in {"FfmpegLossless", "Mp3Reencode"}
    /\ LET fn == IF proc.gain_method = "FfmpegLossless"
                 THEN <<"apply_gain_ffmpeg">> ELSE <<"apply_gain_mp3_reencode">>
           failed == "Gain adjustment failed"
       IN  \/ proc' = proc_at(fn \o <<"invalid_path">>, "done", failed)
           \/ proc' = proc_at(fn \o <<"spawn_failed">>, "done", failed)
           \/ \E wrote \in BOOLEAN :
                  proc' = [proc_at(fn \o <<"encoder_failed">>
                                      \o (IF wrote THEN <<"remove_temp">> ELSE <<>>),
                                   "done", failed)
                              EXCEPT !.temp = FALSE]
           \/ proc' = [proc_at(fn \o <<"encoder_ok">>, "encoded", "None")
                          EXCEPT !.temp = TRUE]
    /\ UNCHANGED <<fsVars, callVars, ghostVars, hdrVars, fnVars, concVars, cli, par,
                   probe>>

\* fs::remove_file(file_path): the original is removed, or the removal fails and
\* the error is returned
RemoveOriginal ==
    /\ proc.pc = "encoded"
    /\ \/ proc' = [proc_at(<<"remove_original">>, "removed", "None")
                      EXCEPT !.original = "missing"]
       \/ proc' = proc_at(<<"remove_failed">>, "done", "Gain adjustment failed")
    /\ UNCHANGED <<fsVars, callVars, ghostVars, hdrVars, fnVars, concVars, cli, par,
                   probe>>

\* fs::rename(&temp_path, file_path): the temporary file takes the place of the
\* original, or the rename fails and the error is returned
RenameTemp ==
    /\ proc.pc = "removed"
    /\ \/ proc' = [proc_at(<<"rename">>, "done", "None")
                      EXCEPT !.original = "processed", !.temp = FALSE]
       \/ proc' = proc_at(<<"rename_failed">>, "done", "Gain adjustment failed")
    /\ UNCHANGED <<fsVars, callVars, ghostVars, hdrVars, fnVars, concVars, cli, par,
                   probe>>

InitProc ==
    /\ proc \in [pc : {"start"}, gain_method : ProcMethods, mp3_gain_steps : {0, 2},
                 backup_dir : BOOLEAN, allow_reencode : BOOLEAN,
                 original : {"original"}, temp : {FALSE}, backed_up : {FALSE},
                 ops : {<<>>}, success : {FALSE}, error : {"None"}]
    /\ cli = NotRun
    /\ par = NotRun
    /\ probe = NotRun
    /\ pc = "process"
    /\ disk = <<>>
    /\ readable = TRUE
    /\ overflow_checks = FALSE
    /\ gain_steps = 0
    /\ data = <<>>
    /\ file_size = 0
    /\ pos = 0
    /\ modified_frames = 0
    /\ result = NoCall
    /\ calls = 0
    /\ reads = 0
    /\ writes = 0
    /\ mutated = {}
    /\ before = <<>>
    /\ frames = <<>>
    /\ sat = FALSE
    /\ prev = NoCall
    /\ handed = <<>>
    /\ hdr_in = <<>>
    /\ hdr_out = NotRun
    /\ acc_loc = NoLocation
    /\ acc_value = 0
    /\ stderr = <<>>
    /\ disks = <<>>
    /\ tasks = <<>>
    /\ out = NotRun

NextProc ==
    \/ ProcessFile
    \/ BackupFile
    \/ ApplyGainMp3Native
    \/ RunEncoder
    \/ RemoveOriginal
    \/ RenameTemp

SpecProc == InitProc /\ [][NextProc]_vars

---------------------------------------------------------------------------
(* Properties of process_file *)

\* the gain operations process_file dispatches to
GainOperations ==
    {"apply_gain_ffmpeg", "apply_gain_mp3_native", "apply_gain_mp3_reencode"}

\* the events logged before the k-th
EventsBefore(k) == {proc.ops[j] : j \in 1..(k - 1)}

\* the events logged
Events == {proc.ops[k] : k \in 1..Len(proc.ops)}

\* the file has headroom and needs no re-encoding that is not allowed
ToBeProcessed ==
    /\ proc.gain_method # "None"
    /\ proc.gain_method = "Mp3Reencode" => proc.allow_reencode

\* C26: with a backup directory given, every gain operation is started after
\* the backup copy completed; after a failed backup no gain operation is
\* started, the file is as it was and process_file returns success = false
\* with "Backup failed"; a file without headroom, or one that needs a
\* re-encoding that is not allowed, is neither backed up nor handed to a gain
\* operation nor modified, and process_file returns success = true.
C26_BackupBeforeGain ==
    /\ proc.backup_dir =>
           \A k \in 1..Len(proc.ops) :
               proc.ops[k] \in GainOperations =>
                   "backup" \in EventsBefore(k) /\ proc.backed_up
    /\ "backup_failed" \in Events =>
           /\ Events \cap GainOperations = {}
           /\ proc.original = "original"
           /\ proc.pc = "done"
           /\ ~proc.success
           /\ proc.error = "Backup failed"
    /\ (proc.pc = "done" /\ ToBeProcessed /\ proc.backup_dir) =>
           Events \cap {"backup", "backup_failed"} # {}
    /\ (proc.pc = "done" /\ ~ToBeProcessed) =>
           /\ proc.ops = <<>>
           /\ ~proc.backed_up
           /\ proc.original = "original"
           /\ proc.success
           /\ proc.error = "None"

\* C26 witness: with a backup directory, the backup was made, then the encoder
\* ran and the processed file took the place of the original.
C26_Witness ==
    /\ proc.pc = "done"
    /\ proc.backup_dir
    /\ proc.ops = <<"backup", "apply_gain_ffmpeg", "encoder_ok", "remove_original",
                    "rename">>
    /\ proc.success
    /\ proc.original = "processed"

---------------------------------------------------------------------------
(* analyze_files (src/src/cli.rs): one worker per file, two shared lists *)

\* number of files analysed, at most
MaxFiles == 3

RECURSIVE sort_by_key(_)
\* indexed_results.sort_by_key(|(idx, _)| *idx): a stable sort by idx
sort_by_key(seq) ==
    IF seq = <<>> THEN <<>>
    ELSE LET least == CHOOSE k \in 1..Len(seq) :
                          \A j \in 1..Len(seq) :
                              \/ seq[k].idx < seq[j].idx
                              \/ seq[k].idx = seq[j].idx /\ k <= j
         IN  <<seq[least]>>
             \o sort_by_key(SubSeq(seq, 1, least - 1) \o SubSeq(seq, least + 1, Len(seq)))

\* the worker of file idx got the result of analyze_file and pushes (idx, Some)
\* or (idx, None) to results under the lock
PushResult(idx) ==
    /\ par.pc = "workers"
    /\ par.worker[idx] = "analyze"
    /\ par' = [par EXCEPT
                  !.results = Append(par.results, [idx |-> idx, some |-> par.ok[idx]]),
                  !.worker[idx] = IF par.ok[idx] THEN "done" ELSE "error"]
    /\ UNCHANGED <<fsVars, callVars, ghostVars, hdrVars, fnVars, concVars, proc, cli,
                   probe>>

\* the worker of a file whose analysis failed pushes the message to errors under
\* the lock
PushError(idx) ==
    /\ par.pc = "workers"
    /\ par.worker[idx] = "error"
    /\ par' = [par EXCEPT !.errors = Append(par.errors, idx),
                          !.worker[idx] = "done"]
    /\ UNCHANGED <<fsVars, callVars, ghostVars, hdrVars, fnVars, concVars, proc, cli,
                   probe>>

\* Collect that keeps the results in the order they were pushed
Collect_unsorted ==
    /\ par.pc = "workers"
    /\ \A idx \in DOMAIN par.worker : par.worker[idx] = "done"
    /\ LET kept == SelectSeq(par.results, LAMBDA r : r.some)
       IN  par' = [par EXCEPT !.pc = "returned",
                              !.printed = par.errors,
                              !.analyses = [k \in 1..Len(kept) |-> kept[k].idx]]
    /\ UNCHANGED <<fsVars, callVars, ghostVars, hdrVars, fnVars, concVars, proc, cli,
                   probe>>

\* every worker is over: the errors are printed, the results sorted by index and
\* the successful analyses returned
Collect ==
    /\ par.pc = "workers"
    /\ \A idx \in DOMAIN par.worker : par.worker[idx] = "done"
    /\ LET indexed_results == sort_by_key(par.results)
           kept == SelectSeq(indexed_results, LAMBDA r : r.some)
       IN  par' = [par EXCEPT !.pc = "returned",
                              !.printed = par.errors,
                              !.analyses = [k \in 1..Len(kept) |-> kept[k].idx]]
    /\ UNCHANGED <<fsVars, callVars, ghostVars, hdrVars, fnVars, concVars, proc, cli,
                   probe>>

InitPar ==
    /\ \E n \in 0..MaxFiles :
           \E ok \in [0..(n - 1) -> BOOLEAN] :
               par = [pc |-> "workers", ok |-> ok,
                      worker |-> [idx \in 0..(n - 1) |-> "analyze"],
                      results |-> <<>>, errors |-> <<>>, printed |-> <<>>,
                      analyses |-> <<>>]
    /\ proc = NotRun
    /\ cli = NotRun
    /\ probe = NotRun
    /\ pc = "analyze_files"
    /\ disk = <<>>
    /\ readable = TRUE
    /\ overflow_checks = FALSE
    /\ gain_steps = 0
    /\ file_size = 0
    /\ modified_frames = 0
    /\ result = NoCall
    /\ calls = 0
    /\ reads = 0
    /\ writes = 0
    /\ mutated = {}
    /\ frames = <<>>
    /\ sat = FALSE
    /\ prev = NoCall
    /\ handed = <<>>
    /\ data = <<>>
    /\ pos = 0
    /\ before = <<>>
    /\ hdr_in = <<>>
    /\ hdr_out = NotRun
    /\ acc_loc = NoLocation
    /\ acc_value = 0
    /\ stderr = <<>>
    /\ disks = <<>>
    /\ tasks = <<>>
    /\ out = NotRun

NextPar ==
    \/ \E idx \in DOMAIN par.worker : PushResult(idx)
    \/ \E idx \in DOMAIN par.worker : PushError(idx)
    \/ Collect

SpecPar == InitPar /\ [][NextPar]_vars

---------------------------------------------------------------------------
(* Properties of analyze_files *)

\* the number of entries of the sequence that the test holds for
CountIn(seq, Test(_)) == Cardinality({k \in 1..Len(seq) : Test(seq[k])})

\* C28: under every interleaving of the workers, every file that got its result
\* has one entry in results and a failed file whose worker is over one message
\* in errors; when analyze_files returns, every input file has exactly one
\* entry, the analyses returned are those of the files that succeeded, in the
\* order of the input list, and every failure was printed exactly once.
C28_AnalysesInInputOrder ==
    /\ \A idx \in DOMAIN par.worker :
           /\ CountIn(par.results, LAMBDA r : r.idx = idx)
                  = (IF par.worker[idx] = "analyze" THEN 0 ELSE 1)
           /\ CountIn(par.errors, LAMBDA e : e = idx)
                  = (IF ~par.ok[idx] /\ par.worker[idx] = "done" THEN 1 ELSE 0)
    /\ par.pc = "returned" =>
           /\ Len(par.results) = Cardinality(DOMAIN par.worker)
           /\ \A j, k \in 1..Len(par.analyses) :
                  j < k => par.analyses[j] < par.analyses[k]
           /\ {par.analyses[k] : k \in 1..Len(par.analyses)}
                  = {idx \in DOMAIN par.worker : par.ok[idx]}
           /\ \A idx \in DOMAIN par.worker :
                  CountIn(par.printed, LAMBDA e : e = idx)
                      = (IF par.ok[idx] THEN 0 ELSE 1)

\* C28 witness: of three files the second failed; the worker of the third
\* pushed first and the worker of the first last, and analyze_files returned the
\* first and the third, in that order.
C28_Witness ==
    /\ par.pc = "returned"
    /\ Len(par.results) = 3
    /\ par.results[1].idx = 2
    /\ par.results[3].idx = 0
    /\ par.analyses = <<0, 2>>
    /\ par.printed = <<1>>

---------------------------------------------------------------------------
(* analyze_file (src/src/analyzer.rs): the gain method of a measured file *)

\* dB values are f64; the model holds them in hundredths of a dB
TARGET_TRUE_PEAK_HIGH_QUALITY == -50

TARGET_TRUE_PEAK_LOW_BITRATE == -100

HIGH_BITRATE_THRESHOLD == 256

MP3_GAIN_STEP == 150

MIN_EFFECTIVE_GAIN == 5

\* an f64 that is c hundredths of a dB
Centi(c) == [kind |-> "centi", c |-> c]

\* the f64 values -inf and +inf ("-inf" is the true peak measured on silence)
NegInf == [kind |-> "-inf", c |-> 0]
PosInf == [kind |-> "inf", c |-> 0]

\* get_target_true_peak(is_lossy, bitrate_kbps); an Option<u32> is <<>> or <<kbps>>
get_target_true_peak(is_lossy, bitrate_kbps) ==
    IF ~is_lossy THEN TARGET_TRUE_PEAK_HIGH_QUALITY
    ELSE IF bitrate_kbps # <<>> /\ bitrate_kbps[1] >= HIGH_BITRATE_THRESHOLD
         THEN TARGET_TRUE_PEAK_HIGH_QUALITY
    ELSE TARGET_TRUE_PEAK_LOW_BITRATE

\* (x / MP3_GAIN_STEP).floor() as i32: the cast saturates, +inf gives i32::MAX
floor_as_i32(x) ==
    CASE x.kind = "centi" -> x.c \div MP3_GAIN_STEP
      [] x.kind = "inf" -> -(I32Min + 1)
      [] x.kind = "-inf" -> I32Min

\* analyze_file from the measurement on: target_tp, headroom and the triple
\* (gain_method, effective_gain, mp3_gain_steps); an effective gain of n steps
\* is n as f64 * MP3_GAIN_STEP
analyze_file(file) ==
    LET is_aac == file.format = "aac"
        is_lossy == file.format \in {"mp3", "aac"}
        minus(ceiling) == CASE file.input_tp.kind = "centi"
                                   -> Centi(ceiling - file.input_tp.c)
                            [] file.input_tp.kind = "-inf" -> PosInf
                            [] file.input_tp.kind = "inf" -> NegInf
        enough(x) == IF x.kind = "centi" THEN x.c >= MIN_EFFECTIVE_GAIN
                     ELSE x.kind = "inf"
        target_tp == get_target_true_peak(is_lossy, file.bitrate_kbps)
        headroom == minus(target_tp)
        lossless_ceiling ==
            IF (IF file.bitrate_kbps = <<>> THEN 0 ELSE file.bitrate_kbps[1])
                   >= HIGH_BITRATE_THRESHOLD
            THEN TARGET_TRUE_PEAK_HIGH_QUALITY
            ELSE TARGET_TRUE_PEAK_LOW_BITRATE
        lossless_steps == floor_as_i32(minus(lossless_ceiling))
        chosen ==
            IF is_aac
            THEN IF enough(headroom) THEN <<"AacReencode", headroom, 0>>
                 ELSE <<"None", Centi(0), 0>>
            ELSE IF ~is_lossy
            THEN IF enough(headroom) THEN <<"FfmpegLossless", headroom, 0>>
                 ELSE <<"None", Centi(0), 0>>
            ELSE IF lossless_steps >= 1
            THEN <<"Mp3Lossless", [kind |-> "steps", c |-> lossless_steps],
                   lossless_steps>>
            ELSE IF enough(headroom) THEN <<"Mp3Reencode", headroom, 0>>
            ELSE <<"None", Centi(0), 0>>
    IN  [target_tp |-> target_tp, headroom |-> headroom, gain_method |-> chosen[1],
         effective_gain |-> chosen[2], mp3_gain_steps |-> chosen[3]]

\* the true peaks measured: -12.00 to +1.00 dBTP by the hundredth, and silence
TruePeaks == {Centi(c) : c \in -1200..100} \cup {NegInf}

\* the bitrates ffprobe gives: none, low, just below and at the threshold, high
Bitrates == {<<>>, <<128>>, <<255>>, <<256>>, <<320>>}

\* analyze_file computes the analysis of the measured file
AnalyzeFile ==
    /\ pc = "analyze"
    /\ out' = analyze_file(probe)
    /\ pc' = "analyzed"
    /\ UNCHANGED <<fsVars, gain_steps, data, file_size, pos, modified_frames, result,
                   ghostVars, hdrVars, acc_loc, acc_value, stderr, concVars, proc,
                   cli, par, probe>>

InitProbe ==
    /\ probe \in [format : {"mp3", "aac", "lossless"}, bitrate_kbps : Bitrates,
                  input_tp : TruePeaks]
    /\ probe.format = "lossless" => probe.bitrate_kbps = <<>>
    /\ proc = NotRun
    /\ cli = NotRun
    /\ par = NotRun
    /\ pc = "analyze"
    /\ disk = <<>>
    /\ readable = TRUE
    /\ overflow_checks = FALSE
    /\ gain_steps = 0
    /\ data = <<>>
    /\ file_size = 0
    /\ pos = 0
    /\ modified_frames = 0
    /\ result = NoCall
    /\ calls = 0
    /\ reads = 0
    /\ writes = 0
    /\ mutated = {}
    /\ before = <<>>
    /\ frames = <<>>
    /\ sat = FALSE
    /\ prev = NoCall
    /\ handed = <<>>
    /\ hdr_in = <<>>
    /\ hdr_out = NotRun
    /\ acc_loc = NoLocation
    /\ acc_value = 0
    /\ stderr = <<>>
    /\ disks = <<>>
    /\ tasks = <<>>
    /\ out = NotRun

NextProbe == AnalyzeFile

SpecProbe == InitProbe /\ [][NextProbe]_vars

---------------------------------------------------------------------------
(* Properties of analyze_file *)

\* the ceiling of an MP3 file of the bitrate, in hundredths of a dB
Ceiling(bitrate_kbps) ==
    IF bitrate_kbps # <<>> /\ bitrate_kbps[1] >= 256 THEN -50 ELSE -100

\* C29 (as claimed): for an MP3 file, with steps = floor((ceiling - input_tp) /
\* 1.5): Mp3Lossless is chosen exactly when steps >= 1, with mp3_gain_steps =
\* steps and effective_gain = 1.5 * steps, which keeps input_tp + effective_gain
\* at or below the ceiling; with steps < 1 Mp3Reencode is chosen when the
\* headroom is at least 0.05 dB and None otherwise.  Fails for the true peak
\* -inf of a silent file: the quotient is +inf and has no floor that is a step
\* count; the cast to i32 saturates and mp3_gain_steps is 2147483647.
C29_Mp3MethodByWholeSteps ==
    (pc = "analyzed" /\ probe.format = "mp3") =>
        LET ceiling == Ceiling(probe.bitrate_kbps)
            finite == probe.input_tp.kind = "centi"
            headroom == ceiling - probe.input_tp.c
            steps == headroom \div 150
        IN  /\ (out.gain_method = "Mp3Lossless") <=> (~finite \/ steps >= 1)
            /\ out.gain_method = "Mp3Lossless" =>
                   /\ finite
                   /\ out.mp3_gain_steps = steps
                   /\ out.effective_gain = [kind |-> "steps", c |-> steps]
                   /\ probe.input_tp.c + 150 * steps <= ceiling
            /\ (finite /\ steps < 1) =>
                   out.gain_method = (IF headroom >= 5 THEN "Mp3Reencode" ELSE "None")

---------------------------------------------------------------------------
(* cli::run (src/src/cli.rs): the prompts, then the files handed to process_file *)

\* GainMethod
GainMethods == {"FfmpegLossless", "Mp3Lossless", "Mp3Reencode", "AacReencode", "None"}

\* the number of analyses of one of the methods
count(analyses, methods) ==
    Cardinality({k \in 1..Len(analyses) : analyses[k] \in methods})

\* AnalysisSummary::total_lossless
total_lossless(analyses) == count(analyses, {"FfmpegLossless", "Mp3Lossless"})

\* AnalysisSummary::total_reencode
total_reencode(analyses) == count(analyses, {"Mp3Reencode", "AacReencode"})

\* files_to_process that keeps the files that need re-encoding whatever the answer
files_to_process_all(analyses, allow_reencode) ==
    SelectSeq([k \in 1..Len(analyses) |-> k - 1],
              LAMBDA idx : analyses[idx + 1] # "None")

\* files_to_process: the indices of the analyses the filter keeps
files_to_process(analyses, allow_reencode) ==
    SelectSeq([k \in 1..Len(analyses) |-> k - 1],
              LAMBDA idx :
                  CASE analyses[idx + 1] \in {"FfmpegLossless", "Mp3Lossless"} -> TRUE
                    [] analyses[idx + 1] \in {"Mp3Reencode", "AacReencode"}
                           -> allow_reencode
                    [] OTHER -> FALSE)

\* the answers to a prompt: yes, no, or the prompt fails
Answers == {"yes", "no", "error"}

\* the analyses are in: run returns when no file has headroom, or goes on to the
\* first prompt that is due
Summarize ==
    /\ cli.pc = "analyzed"
    /\ cli' = [cli EXCEPT !.pc =
                  IF total_lossless(cli.analyses) + total_reencode(cli.analyses) = 0
                  THEN "returned"
                  ELSE IF total_lossless(cli.analyses) > 0 THEN "lossless"
                  ELSE "reencode"]
    /\ UNCHANGED <<fsVars, callVars, ghostVars, hdrVars, fnVars, concVars, proc, par,
                   probe>>

\* prompt_lossless_processing: declined or failed, run returns
PromptLossless ==
    /\ cli.pc = "lossless"
    /\ \E answer \in Answers :
           cli' = [cli EXCEPT !.asked = Append(cli.asked, <<"lossless", answer>>),
                              !.pc = IF answer = "yes" THEN "reencode" ELSE "returned"]
    /\ UNCHANGED <<fsVars, callVars, ghostVars, hdrVars, fnVars, concVars, proc, par,
                   probe>>

\* allow_reencode: the answer to prompt_reencode_processing where files need
\* re-encoding, false without a prompt where none does
AllowReencode ==
    /\ cli.pc = "reencode"
    /\ IF total_reencode(cli.analyses) > 0
       THEN \E answer \in Answers :
                cli' = [cli EXCEPT
                           !.asked = Append(cli.asked, <<"reencode", answer>>),
                           !.allow_reencode = (answer = "yes"),
                           !.pc = IF answer = "error" THEN "returned" ELSE "backup"]
       ELSE cli' = [cli EXCEPT !.allow_reencode = FALSE, !.pc = "backup"]
    /\ UNCHANGED <<fsVars, callVars, ghostVars, hdrVars, fnVars, concVars, proc, par,
                   probe>>

\* the backup prompt, create_backup_dir (which may fail) and the filter: run
\* returns when the prompt or the directory fails or no file is left
PromptBackup ==
    /\ cli.pc = "backup"
    /\ \E answer \in Answers, created \in BOOLEAN :
           LET kept == files_to_process(cli.analyses, cli.allow_reencode)
               failed == answer = "error" \/ (answer = "yes" /\ ~created)
           IN  cli' = [cli EXCEPT
                          !.asked = Append(cli.asked, <<"backup", answer>>),
                          !.backup_dir = (answer = "yes" /\ created),
                          !.files_to_process = IF failed THEN <<>> ELSE kept,
                          !.pc = IF failed \/ kept = <<>> THEN "returned"
                                 ELSE "process"]
    /\ UNCHANGED <<fsVars, callVars, ghostVars, hdrVars, fnVars, concVars, proc, par,
                   probe>>

\* process_files: the next file is handed to process_file, which processes it
\* unless it has no headroom or needs a re-encoding that is not allowed
ProcessNext ==
    /\ cli.pc = "process"
    /\ LET idx == cli.files_to_process[Len(cli.handed) + 1]
           method == cli.analyses[idx + 1]
           skipped == \/ method = "None"
                      \/ method \in {"Mp3Reencode", "AacReencode"} /\ ~cli.allow_reencode
       IN  cli' = [cli EXCEPT
                      !.handed = Append(cli.handed, idx),
                      !.processed = IF skipped THEN cli.processed
                                    ELSE Append(cli.processed, idx),
                      !.pc = IF Len(cli.handed) + 1 = Len(cli.files_to_process)
                             THEN "returned" ELSE "process"]
    /\ UNCHANGED <<fsVars, callVars, ghostVars, hdrVars, fnVars, concVars, proc, par,
                   probe>>

InitCli ==
    /\ \E n \in 0..MaxFiles :
           \E analyses \in [1..n -> GainMethods] :
               cli = [pc |-> "analyzed", analyses |-> analyses, asked |-> <<>>,
                      allow_reencode |-> FALSE, backup_dir |-> FALSE,
                      files_to_process |-> <<>>, handed |-> <<>>, processed |-> <<>>]
    /\ proc = NotRun
    /\ par = NotRun
    /\ probe = NotRun
    /\ pc = "run"
    /\ disk = <<>>
    /\ readable = TRUE
    /\ overflow_checks = FALSE
    /\ gain_steps = 0
    /\ data = <<>>
    /\ file_size = 0
    /\ pos = 0
    /\ modified_frames = 0
    /\ result = NoCall
    /\ calls = 0
    /\ reads = 0
    /\ writes = 0
    /\ mutated = {}
    /\ before = <<>>
    /\ frames = <<>>
    /\ sat = FALSE
    /\ prev = NoCall
    /\ handed = <<>>
    /\ hdr_in = <<>>
    /\ hdr_out = NotRun
    /\ acc_loc = NoLocation
    /\ acc_value = 0
    /\ stderr = <<>>
    /\ disks = <<>>
    /\ tasks = <<>>
    /\ out = NotRun

NextCli ==
    \/ Summarize
    \/ PromptLossless
    \/ AllowReencode
    \/ PromptBackup
    \/ ProcessNext

SpecCli == InitCli /\ [][NextCli]_vars

---------------------------------------------------------------------------
(* Properties of cli::run *)

\* the prompts answered so far
Asked == {cli.asked[k] : k \in 1..Len(cli.asked)}

\* the methods of the files handed to process_file so far
HandedMethods == {cli.analyses[cli.handed[k] + 1] : k \in 1..Len(cli.handed)}

\* C30: a file is handed to process_file only after every prompt that is due was
\* answered (the lossless prompt with yes where lossless candidates exist, the
\* re-encode prompt where files need re-encoding, the backup prompt); after the
\* lossless prompt was declined the run is over with no file handed over and no
\* other prompt shown; a file that needs re-encoding is handed over only after
\* the re-encode prompt was answered with yes; a file of method None never is.
C30_NoProcessingBeforePrompts ==
    /\ cli.handed # <<>> =>
           /\ total_lossless(cli.analyses) > 0 => <<"lossless", "yes">> \in Asked
           /\ total_reencode(cli.analyses) > 0 =>
                  Asked \cap {<<"reencode", "yes">>, <<"reencode", "no">>} # {}
           /\ Asked \cap {<<"backup", "yes">>, <<"backup", "no">>} # {}
    /\ <<"lossless", "no">> \in Asked =>
           /\ cli.asked = << <<"lossless", "no">> >>
           /\ cli.pc = "returned"
           /\ cli.handed = <<>>
           /\ cli.processed = <<>>
    /\ HandedMethods \cap {"Mp3Reencode", "AacReencode"} # {} =>
           <<"reencode", "yes">> \in Asked
    /\ "None" \notin HandedMethods
    /\ \A k \in 1..Len(cli.processed) :
           \E j \in 1..Len(cli.handed) : cli.handed[j] = cli.processed[k]

\* C30 witness: of a lossless MP3, a file without headroom and an AAC file, the
\* first and the third were processed after the three prompts: lossless yes,
\* re-encode yes, backup no.
C30_Witness ==
    /\ cli.pc = "returned"
    /\ cli.analyses = <<"Mp3Lossless", "None", "AacReencode">>
    /\ cli.asked = << <<"lossless", "yes">>, <<"reencode", "yes">>, <<"backup", "no">> >>
    /\ cli.handed = <<0, 2>>
    /\ cli.processed = <<0, 2>>

===========================================================================
